---- MODULE Spec2Model ----
(***************************************************************************)
(* CardCue (src/app.js): the deck store, the spaced-repetition scheduler,  *)
(* the import merger and the study-session engine, as one state machine.   *)
(*                                                                         *)
(* JavaScript objects are modelled with their identity: a card object is   *)
(* an address into cardObj, and its stats and sr objects (which the code   *)
(* always creates, shares and replaces together) an address into progObj.  *)
(* Two cards may therefore share one stats/sr pair, and the session may    *)
(* hold card objects the deck no longer holds.  Addresses are opaque in    *)
(* JavaScript, so every step renumbers the live objects in a fixed order   *)
(* and drops the unreachable ones.                                         *)
(***************************************************************************)
EXTENDS Integers, Sequences, FiniteSets, TLC

VARIABLES
    deck,       \* the in-memory deck (app.js:162)
    cardObj,    \* heap: card address -> card object
    progObj,    \* heap: address -> the stats and sr objects of a card
    storage,    \* localStorage: the durable deck record, the session counter and
                \* the view mode ("": no entry)
    session,    \* the study session (app.js:893)
    view,       \* what #card shows, i.e. which handlers are bound, and to which card
    settings,   \* __settings (app.js:152)
    timers,     \* pending setTimeout(nextCard, ...) callbacks
    now,        \* the wall clock, ms
    last,       \* the handler that ran last, and how it ended
    probe,      \* an observer: what a caller passed to the card model or the
                \* filter engine and got back, or the advances of the session
    importing   \* the import batch whose files are being read: pending,
                \* collected and replace of the change handler (app.js:808-810),
                \* its files and those whose FileReader has not fired yet

vars ==
    <<deck, cardObj, progObj, storage, session, view, settings, timers, now, last, probe,
      importing>>

---------------------------------------------------------------------------
(* Bounds of the model *)

MaxTicks == 2
MaxPool == 3
MaxBatch == 2
MaxTimers == 1
MaxSessions == 2
MaxFiles == 2
MaxImports == 2

---------------------------------------------------------------------------
(* Program constants *)

SR_STEPS == <<1, 3, 7, 14>>

DayMs == 24 * 3600 * 1000

\* The clock reading at the page load the model starts from; one tick of the
\* model's clock is a day.
StartMs == 2 * DayMs
TickMs == DayMs
MaxNow == StartMs + MaxTicks * TickMs

Letters == <<"A", "B", "C", "D">>

---------------------------------------------------------------------------
(* Sequences *)

SeqToSet(s) == {s[i] : i \in 1..Len(s)}

Front(s) == SubSeq(s, 1, Len(s) - 1)

Dedup(s) ==
    LET keep == {i \in 1..Len(s) : \A j \in 1..(i - 1) : s[j] # s[i]}
    IN [k \in 1..Cardinality(keep) |->
           s[CHOOSE i \in keep : Cardinality({j \in keep : j < i}) = k - 1]]

IndexOf(s, x) == CHOOSE i \in 1..Len(s) : s[i] = x

Min2(a, b) == IF a < b THEN a ELSE b

Perms(s) ==
    {p \in [1..Len(s) -> SeqToSet(s)] :
        \E f \in [1..Len(s) -> 1..Len(s)] :
            /\ \A i, j \in 1..Len(s) : i # j => f[i] # f[j]
            /\ \A i \in 1..Len(s) : p[i] = s[f[i]]}

---------------------------------------------------------------------------
(* Card model *)

initStats == [seen |-> 0, correct |-> 0, streak |-> 0, lastSeen |-> <<>>]

initSR == [intervalDays |-> 0, nextDue |-> 0, lastReviewed |-> 0]

InitProg == [stats |-> initStats, sr |-> initSR]

newDeck(t) ==
    [version |-> 1, createdAt |-> t, updatedAt |-> t, hasCards |-> TRUE,
     cards |-> <<>>, topicIndex |-> [x \in {} |-> <<>>]]

\* Cards the file readers collect.  prog: <<>> for a sheet row, which has no
\* stats and no sr, or the stats and sr a card of a JSON file carries.  The
\* topics cell "B, B" parses to <<"B", "B">>.
IncomingCards ==
    { [id |-> "a", type |-> "flashcard", front |-> 1, correct |-> 0, topics |-> <<"A">>,
       prog |-> << [stats |-> [seen |-> 1, correct |-> 1, streak |-> 1,
                               lastSeen |-> <<DayMs>>],
                    sr |-> [intervalDays |-> 3, nextDue |-> DayMs + 3 * DayMs,
                            lastReviewed |-> DayMs]] >>],
      [id |-> "a", type |-> "flashcard", front |-> 2, correct |-> 0,
       topics |-> <<"B", "B">>, prog |-> <<>>],
      [id |-> "7", type |-> "mcq", front |-> 1, correct |-> 1, topics |-> <<"A", "B">>,
       prog |-> <<>>] }

Batches == UNION {[1..n -> IncomingCards] : n \in 0..MaxBatch}

\* hydrateCard on a collected card: id, type, topics and correct are present;
\* stats and sr are kept when the card carries them and created when it does
\* not.  The objects are allocated by the caller.
hydrateCard(c) ==
    [id |-> c.id, type |-> c.type, front |-> c.front, correct |-> c.correct,
     topics |-> c.topics,
     stats |-> IF c.prog = <<>> THEN initStats ELSE c.prog[1].stats,
     sr |-> IF c.prog = <<>> THEN initSR ELSE c.prog[1].sr]

\* The value of a card object, as JSON.stringify writes it.
CardValue(cObj, pObj, a) ==
    [id |-> cObj[a].id, type |-> cObj[a].type, front |-> cObj[a].front,
     correct |-> cObj[a].correct, topics |-> cObj[a].topics,
     stats |-> pObj[cObj[a].prog].stats, sr |-> pObj[cObj[a].prog].sr]

NewAddr(used) == CHOOSE a \in 1..(Cardinality(used) + 1) : a \notin used

---------------------------------------------------------------------------
(* Deck store *)

RECURSIVE CountOf(_, _)
CountOf(s, x) ==
    IF s = <<>> THEN 0 ELSE CountOf(Tail(s), x) + (IF Head(s) = x THEN 1 ELSE 0)

RECURSIVE Repeat(_, _)
Repeat(x, n) == IF n = 0 THEN <<>> ELSE <<x>> \o Repeat(x, n - 1)

RECURSIVE IdsPushedFor(_, _, _)
\* the ids buildTopicIndex pushes onto idx[t], card by card, topic by topic
IdsPushedFor(t, cards, cObj) ==
    IF cards = <<>> THEN <<>>
    ELSE Repeat(cObj[Head(cards)].id, CountOf(cObj[Head(cards)].topics, t))
            \o IdsPushedFor(t, Tail(cards), cObj)

TopicsOf(cards, cObj) == UNION {SeqToSet(cObj[cards[i]].topics) : i \in 1..Len(cards)}

buildTopicIndex(cards, cObj) ==
    [t \in TopicsOf(cards, cObj) |-> IdsPushedFor(t, cards, cObj)]

\* JSON.stringify(deck)
Snapshot(d, cObj, pObj) ==
    [kind |-> "deck", version |-> d.version, createdAt |-> d.createdAt,
     updatedAt |-> d.updatedAt, hasCards |-> d.hasCards,
     cards |-> [i \in 1..Len(d.cards) |-> CardValue(cObj, pObj, d.cards[i])],
     topicIndex |-> d.topicIndex]

\* A durable record without cards.  kind: "absent" (getItem gives null),
\* "unparseable" (JSON.parse throws), "null" (the JSON text null) or "deck" (a
\* JSON object, here one with no cards property, such as {}).
NoRecord(kind) ==
    [kind |-> kind, version |-> 0, createdAt |-> 0, updatedAt |-> 0,
     hasCards |-> FALSE, cards |-> <<>>, topicIndex |-> [x \in {} |-> <<>>]]

\* The program's memory, threaded through the functions of app.js.  threw: an
\* exception is propagating, and the statements after its origin are skipped.
Mem(d, cObj, pObj, st) ==
    [deck |-> d, cardObj |-> cObj, progObj |-> pObj, storage |-> st, threw |-> FALSE]

\* The write leaves the stored topic index as it is
persist_keepsStoredIndex(m, t, ok) ==
    LET d == [m.deck EXCEPT !.updatedAt = t]
    IN IF ok
       THEN [m EXCEPT !.deck = d,
                      !.storage.deck = [Snapshot(d, m.cardObj, m.progObj) EXCEPT
                                           !.topicIndex = m.storage.deck.topicIndex]]
       ELSE [m EXCEPT !.deck = d, !.threw = TRUE]

\* persist(): updatedAt, then localStorage.setItem, which throws when the write
\* fails (ok = FALSE); nothing in persist catches it.
persist(m, t, ok) ==
    LET d == [m.deck EXCEPT !.updatedAt = t]
    IN IF ok
       THEN [m EXCEPT !.deck = d,
                      !.storage.deck = Snapshot(d, m.cardObj, m.progObj)]
       ELSE [m EXCEPT !.deck = d, !.threw = TRUE]

setDeck(m, newDeckObj, t, ok) ==
    persist([m EXCEPT !.deck = [newDeckObj EXCEPT
                 !.topicIndex = buildTopicIndex(newDeckObj.cards, m.cardObj)]], t, ok)

\* loadDeck(): the deck and the heap a page load builds from the durable record.
\* An absent record gives newDeck(); so do, through the catch, a record
\* JSON.parse rejects and the record null, whose d.cards throws.  A record that
\* parses to an object without a cards list is returned as it is, with an empty
\* topic index; otherwise every card is hydrated into a new object.
loadDeck(st, t) ==
    LET raw == st.deck
        n == Len(raw.cards)
    IN IF raw.kind \in {"absent", "unparseable", "null"}
       THEN [deck |-> newDeck(t), cardObj |-> <<>>, progObj |-> <<>>]
       ELSE IF ~raw.hasCards
       THEN [deck |-> [version |-> raw.version, createdAt |-> raw.createdAt,
                       updatedAt |-> raw.updatedAt, hasCards |-> FALSE,
                       cards |-> <<>>, topicIndex |-> [x \in {} |-> <<>>]],
             cardObj |-> <<>>, progObj |-> <<>>]
       ELSE LET cObj == [i \in 1..n |->
                            [id |-> raw.cards[i].id, type |-> raw.cards[i].type,
                             front |-> raw.cards[i].front,
                             correct |-> raw.cards[i].correct,
                             topics |-> raw.cards[i].topics, prog |-> i]]
                pObj == [i \in 1..n |->
                            [stats |-> raw.cards[i].stats, sr |-> raw.cards[i].sr]]
                cards == [i \in 1..n |-> i]
            IN [deck |-> [version |-> raw.version, createdAt |-> raw.createdAt,
                          updatedAt |-> raw.updatedAt, hasCards |-> TRUE,
                          cards |-> cards,
                          topicIndex |-> buildTopicIndex(cards, cObj)],
                cardObj |-> cObj, progObj |-> pObj]

\* App.getDeck(): JSON.parse(localStorage.getItem(KEY)) || newDeck(), with no
\* try around it: TRUE when the call throws.
getDeckThrows(st) == st.deck.kind = "unparseable"

---------------------------------------------------------------------------
(* Import merger *)

\* Keys that are canonical array indices, which Object.keys lists first, in
\* ascending numeric order, before the other keys in insertion order.
ArrayIndexValue == [k \in {"7"} |-> 7]

IsArrayIndex(k) == k \in DOMAIN ArrayIndexValue

RECURSIVE Ascending(_)
Ascending(S) ==
    IF S = {} THEN <<>>
    ELSE LET k == CHOOSE x \in S : \A y \in S : ArrayIndexValue[x] <= ArrayIndexValue[y]
         IN <<k>> \o Ascending(S \ {k})

ObjectKeys(keys) ==
    Ascending({k \in SeqToSet(keys) : IsArrayIndex(k)})
        \o SelectSeq(keys, LAMBDA k : ~IsArrayIndex(k))

\* var map = {}; deck.cards.forEach(function (c) { map[c.id] = c; });
MapKeys(cards, cObj) == Dedup([i \in 1..Len(cards) |-> cObj[cards[i]].id])

MapVal(cards, cObj) ==
    [k \in SeqToSet(MapKeys(cards, cObj)) |->
        cards[CHOOSE i \in 1..Len(cards) :
                 /\ cObj[cards[i]].id = k
                 /\ \A j \in (i + 1)..Len(cards) : cObj[cards[j]].id # k]]

RECURSIVE upsertLoop(_, _, _, _, _)
\* newCards.forEach: an id the map holds takes the stats and sr objects of the
\* card the map holds; a new id keeps the objects hydrateCard gave it.
upsertLoop(keys, val, cObj, pObj, newCards) ==
    IF newCards = <<>>
    THEN [keys |-> keys, val |-> val, cardObj |-> cObj, progObj |-> pObj]
    ELSE LET nc == hydrateCard(Head(newCards))
             known == nc.id \in DOMAIN val
             a == NewAddr(DOMAIN cObj)
             p == IF known THEN cObj[val[nc.id]].prog ELSE NewAddr(DOMAIN pObj)
             obj == [id |-> nc.id, type |-> nc.type, front |-> nc.front,
                     correct |-> nc.correct, topics |-> nc.topics, prog |-> p]
         IN upsertLoop(IF known THEN keys ELSE Append(keys, nc.id),
                       (nc.id :> a) @@ val,
                       (a :> obj) @@ cObj,
                       IF known THEN pObj
                       ELSE (p :> [stats |-> nc.stats, sr |-> nc.sr]) @@ pObj,
                       Tail(newCards))

\* Variants of upsertCards with one statement changed.
\* an incoming card always gets initStats() and initSR()
upsertCards_freshStats(m, newCards, t, ok) ==
    IF ~m.deck.hasCards THEN [m EXCEPT !.threw = TRUE]
    ELSE LET r == upsertLoop(MapKeys(m.deck.cards, m.cardObj),
                             MapVal(m.deck.cards, m.cardObj),
                             m.cardObj, m.progObj, newCards)
             ks == ObjectKeys(r.keys)
             cards == [i \in 1..Len(ks) |-> r.val[ks[i]]]
             touched == {r.cardObj[r.val[newCards[k].id]].prog : k \in 1..Len(newCards)}
         IN persist([m EXCEPT !.deck.cards = cards,
                              !.deck.topicIndex = buildTopicIndex(cards, r.cardObj),
                              !.cardObj = r.cardObj,
                              !.progObj = [q \in DOMAIN r.progObj |->
                                              IF q \in touched THEN InitProg
                                              ELSE r.progObj[q]]], t, ok)

\* an incoming card keeps the stats and sr hydrateCard gave it, also when the
\* deck holds its id
upsertCards_incomingStatsWin(m, newCards, t, ok) ==
    IF ~m.deck.hasCards THEN [m EXCEPT !.threw = TRUE]
    ELSE LET r == upsertLoop(MapKeys(m.deck.cards, m.cardObj),
                             MapVal(m.deck.cards, m.cardObj),
                             m.cardObj, m.progObj, newCards)
             ks == ObjectKeys(r.keys)
             cards == [i \in 1..Len(ks) |-> r.val[ks[i]]]
             rows(q) == {k \in 1..Len(newCards) :
                            r.cardObj[r.val[newCards[k].id]].prog = q}
             row(q) == hydrateCard(newCards[CHOOSE k \in rows(q) :
                                               \A j \in rows(q) : j <= k])
         IN persist([m EXCEPT !.deck.cards = cards,
                              !.deck.topicIndex = buildTopicIndex(cards, r.cardObj),
                              !.cardObj = r.cardObj,
                              !.progObj = [q \in DOMAIN r.progObj |->
                                              IF rows(q) # {}
                                              THEN [stats |-> row(q).stats,
                                                    sr |-> row(q).sr]
                                              ELSE r.progObj[q]]], t, ok)

\* deck.cards becomes the incoming cards alone
upsertCards_onlyIncoming(m, newCards, t, ok) ==
    IF ~m.deck.hasCards THEN [m EXCEPT !.threw = TRUE]
    ELSE LET r == upsertLoop(MapKeys(m.deck.cards, m.cardObj),
                             MapVal(m.deck.cards, m.cardObj),
                             m.cardObj, m.progObj, newCards)
             ks == ObjectKeys(Dedup([k \in 1..Len(newCards) |-> newCards[k].id]))
             cards == [i \in 1..Len(ks) |-> r.val[ks[i]]]
         IN persist([m EXCEPT !.deck.cards = cards,
                              !.deck.topicIndex = buildTopicIndex(cards, r.cardObj),
                              !.cardObj = r.cardObj,
                              !.progObj = r.progObj], t, ok)

\* the incoming cards are pushed onto deck.cards as well as put in the map
upsertCards_pushesIncoming(m, newCards, t, ok) ==
    IF ~m.deck.hasCards THEN [m EXCEPT !.threw = TRUE]
    ELSE LET r == upsertLoop(MapKeys(m.deck.cards, m.cardObj),
                             MapVal(m.deck.cards, m.cardObj),
                             m.cardObj, m.progObj, newCards)
             ks == ObjectKeys(r.keys) \o [k \in 1..Len(newCards) |-> newCards[k].id]
             cards == [i \in 1..Len(ks) |-> r.val[ks[i]]]
         IN persist([m EXCEPT !.deck.cards = cards,
                              !.deck.topicIndex = buildTopicIndex(cards, r.cardObj),
                              !.cardObj = r.cardObj,
                              !.progObj = r.progObj], t, ok)

upsertCards(m, newCards, t, ok) ==
    IF ~m.deck.hasCards THEN [m EXCEPT !.threw = TRUE]
    ELSE LET r == upsertLoop(MapKeys(m.deck.cards, m.cardObj),
                             MapVal(m.deck.cards, m.cardObj),
                             m.cardObj, m.progObj, newCards)
             ks == ObjectKeys(r.keys)
             cards == [i \in 1..Len(ks) |-> r.val[ks[i]]]
         IN persist([m EXCEPT !.deck.cards = cards,
                              !.deck.topicIndex = buildTopicIndex(cards, r.cardObj),
                              !.cardObj = r.cardObj,
                              !.progObj = r.progObj], t, ok)

\* The batch is merged whenever a file has completed with cards collected
doneOne_mergesAsFilesArrive(m, pending, collected, replace, t, ok1, ok2) ==
    IF collected = <<>> THEN m
    ELSE LET m1 == IF replace
                   THEN setDeck(m, [newDeck(t) EXCEPT !.createdAt = m.deck.createdAt],
                                t, ok1)
                   ELSE m
         IN IF m1.threw THEN m1 ELSE upsertCards(m1, collected, t, ok2)

\* doneOne(), after its pending--: pending files are still being read and
\* `collected` is what the completed ones gave.
\* The deck is replaced when the last file is done, collected or not
doneOne_replacesBeforeCollecting(m, pending, collected, replace, t, ok1, ok2) ==
    IF pending # 0 THEN m
    ELSE LET m1 == IF replace
                   THEN setDeck(m, [newDeck(t) EXCEPT !.createdAt = m.deck.createdAt],
                                t, ok1)
                   ELSE m
         IN IF m1.threw \/ collected = <<>> THEN m1
            ELSE upsertCards(m1, collected, t, ok2)

doneOne(m, pending, collected, replace, t, ok1, ok2) ==
    IF ~(pending = 0 /\ collected # <<>>) THEN m
    ELSE LET m1 == IF replace
                   THEN setDeck(m, [newDeck(t) EXCEPT !.createdAt = m.deck.createdAt],
                                t, ok1)
                   ELSE m
         IN IF m1.threw THEN m1 ELSE upsertCards(m1, collected, t, ok2)

---------------------------------------------------------------------------
(* Scheduler *)

\* markResult(cardId, wasCorrect)
\* markResult with the interval taken from the first step whatever the streak.
markResult_firstStepOnly(m, cardId, wasCorrect, t, ok) ==
    IF ~m.deck.hasCards THEN [m EXCEPT !.threw = TRUE]
    ELSE LET hits == {i \in 1..Len(m.deck.cards) : m.cardObj[m.deck.cards[i]].id = cardId}
         IN IF hits = {} THEN m
            ELSE LET c == m.deck.cards[CHOOSE i \in hits : \A j \in hits : i <= j]
                     p == m.progObj[m.cardObj[c].prog]
                     days == SR_STEPS[1]
                     q == [stats |-> [seen |-> p.stats.seen + 1,
                                      correct |-> IF wasCorrect THEN p.stats.correct + 1
                                                  ELSE p.stats.correct,
                                      streak |-> IF wasCorrect THEN p.stats.streak + 1 ELSE 0,
                                      lastSeen |-> <<t>>],
                           sr |-> [intervalDays |-> days, lastReviewed |-> t,
                                   nextDue |-> t + days * 24 * 3600 * 1000]]
                 IN persist([m EXCEPT !.progObj[m.cardObj[c].prog] = q], t, ok)

markResult(m, cardId, wasCorrect, t, ok) ==
    IF ~m.deck.hasCards THEN [m EXCEPT !.threw = TRUE]
    ELSE LET hits == {i \in 1..Len(m.deck.cards) : m.cardObj[m.deck.cards[i]].id = cardId}
         IN IF hits = {} THEN m
            ELSE LET c == m.deck.cards[CHOOSE i \in hits : \A j \in hits : i <= j]
                     p == m.progObj[m.cardObj[c].prog]
                     streak == IF wasCorrect THEN p.stats.streak + 1 ELSE 0
                     stepIdx == Min2(streak, Len(SR_STEPS) - 1)
                     days == SR_STEPS[stepIdx + 1]
                     q == [stats |-> [seen |-> p.stats.seen + 1,
                                      correct |-> IF wasCorrect THEN p.stats.correct + 1
                                                  ELSE p.stats.correct,
                                      streak |-> streak,
                                      lastSeen |-> <<t>>],
                           sr |-> [intervalDays |-> days, lastReviewed |-> t,
                                   nextDue |-> t + days * 24 * 3600 * 1000]]
                 IN persist([m EXCEPT !.progObj[m.cardObj[c].prog] = q], t, ok)

\* Variants of record with one statement changed.
\* seen is counted only for a wrong answer
record_seenOnlyWhenWrong(m, c, isCorrect, t, ok) ==
    LET p == m.progObj[m.cardObj[c].prog]
        streak == IF isCorrect THEN p.stats.streak + 1 ELSE 0
        days == SR_STEPS[Min2(streak, Len(SR_STEPS) - 1) + 1]
        q == [stats |-> [seen |-> IF isCorrect THEN p.stats.seen ELSE p.stats.seen + 1,
                         correct |-> IF isCorrect THEN p.stats.correct + 1
                                     ELSE p.stats.correct,
                         streak |-> streak, lastSeen |-> <<t>>],
              sr |-> [intervalDays |-> days, lastReviewed |-> t,
                      nextDue |-> t + days * 24 * 3600 * 1000]]
    IN persist([m EXCEPT !.progObj[m.cardObj[c].prog] = q], t, ok)

\* the step index is capped one short: Math.min(streak, SR_STEPS.length - 2)
record_capOneShort(m, c, isCorrect, t, ok) ==
    LET p == m.progObj[m.cardObj[c].prog]
        streak == IF isCorrect THEN p.stats.streak + 1 ELSE 0
        days == SR_STEPS[Min2(streak, Len(SR_STEPS) - 2) + 1]
        q == [stats |-> [seen |-> p.stats.seen + 1,
                         correct |-> IF isCorrect THEN p.stats.correct + 1
                                     ELSE p.stats.correct,
                         streak |-> streak, lastSeen |-> <<t>>],
              sr |-> [intervalDays |-> days, lastReviewed |-> t,
                      nextDue |-> t + days * 24 * 3600 * 1000]]
    IN persist([m EXCEPT !.progObj[m.cardObj[c].prog] = q], t, ok)

\* nextDue is counted from the previous review: lastReviewed is set after it
record_dueFromPreviousReview(m, c, isCorrect, t, ok) ==
    LET p == m.progObj[m.cardObj[c].prog]
        streak == IF isCorrect THEN p.stats.streak + 1 ELSE 0
        days == SR_STEPS[Min2(streak, Len(SR_STEPS) - 1) + 1]
        q == [stats |-> [seen |-> p.stats.seen + 1,
                         correct |-> IF isCorrect THEN p.stats.correct + 1
                                     ELSE p.stats.correct,
                         streak |-> streak, lastSeen |-> <<t>>],
              sr |-> [intervalDays |-> days, lastReviewed |-> t,
                      nextDue |-> p.sr.lastReviewed + days * 24 * 3600 * 1000]]
    IN persist([m EXCEPT !.progObj[m.cardObj[c].prog] = q], t, ok)

\* a wrong answer leaves the streak as it was
\* record with the count of right answers left alone
record_streakWithoutCorrect(m, c, isCorrect, t, ok) ==
    LET p == m.progObj[m.cardObj[c].prog]
        streak == IF isCorrect THEN p.stats.streak + 1 ELSE 0
        days == SR_STEPS[Min2(streak, Len(SR_STEPS) - 1) + 1]
        q == [stats |-> [seen |-> p.stats.seen + 1, correct |-> p.stats.correct,
                         streak |-> streak, lastSeen |-> <<t>>],
              sr |-> [intervalDays |-> days, lastReviewed |-> t,
                      nextDue |-> t + days * 24 * 3600 * 1000]]
    IN persist([m EXCEPT !.progObj[m.cardObj[c].prog] = q], t, ok)

record_missKeepsStreak(m, c, isCorrect, t, ok) ==
    LET p == m.progObj[m.cardObj[c].prog]
        streak == IF isCorrect THEN p.stats.streak + 1 ELSE p.stats.streak
        days == SR_STEPS[Min2(streak, Len(SR_STEPS) - 1) + 1]
        q == [stats |-> [seen |-> p.stats.seen + 1,
                         correct |-> IF isCorrect THEN p.stats.correct + 1
                                     ELSE p.stats.correct,
                         streak |-> streak, lastSeen |-> <<t>>],
              sr |-> [intervalDays |-> days, lastReviewed |-> t,
                      nextDue |-> t + days * 24 * 3600 * 1000]]
    IN persist([m EXCEPT !.progObj[m.cardObj[c].prog] = q], t, ok)

\* a right answer forgives the earlier wrong ones: correct is set to seen
record_forgivesOnCorrect(m, c, isCorrect, t, ok) ==
    LET p == m.progObj[m.cardObj[c].prog]
        streak == IF isCorrect THEN p.stats.streak + 1 ELSE 0
        days == SR_STEPS[Min2(streak, Len(SR_STEPS) - 1) + 1]
        q == [stats |-> [seen |-> p.stats.seen + 1,
                         correct |-> IF isCorrect THEN p.stats.seen + 1
                                     ELSE p.stats.correct,
                         streak |-> streak, lastSeen |-> <<t>>],
              sr |-> [intervalDays |-> days, lastReviewed |-> t,
                      nextDue |-> t + days * 24 * 3600 * 1000]]
    IN persist([m EXCEPT !.progObj[m.cardObj[c].prog] = q], t, ok)

\* the update is applied twice: seen goes up by 2
record_appliedTwice(m, c, isCorrect, t, ok) ==
    LET p == m.progObj[m.cardObj[c].prog]
        streak == IF isCorrect THEN p.stats.streak + 1 ELSE 0
        days == SR_STEPS[Min2(streak, Len(SR_STEPS) - 1) + 1]
        q == [stats |-> [seen |-> p.stats.seen + 2,
                         correct |-> IF isCorrect THEN p.stats.correct + 1
                                     ELSE p.stats.correct,
                         streak |-> streak, lastSeen |-> <<t>>],
              sr |-> [intervalDays |-> days, lastReviewed |-> t,
                      nextDue |-> t + days * 24 * 3600 * 1000]]
    IN persist([m EXCEPT !.progObj[m.cardObj[c].prog] = q], t, ok)

\* record(c, isCorrect): c is a card object, wherever the caller got it from.
record(m, c, isCorrect, t, ok) ==
    LET p == m.progObj[m.cardObj[c].prog]
        seen == p.stats.seen + 1
        correct == IF isCorrect THEN p.stats.correct + 1 ELSE p.stats.correct
        streak == IF isCorrect THEN p.stats.streak + 1 ELSE 0
        stepIdx == Min2(streak, Len(SR_STEPS) - 1)
        days == SR_STEPS[stepIdx + 1]
        q == [stats |-> [seen |-> seen, correct |-> correct, streak |-> streak,
                         lastSeen |-> <<t>>],
              sr |-> [intervalDays |-> days, lastReviewed |-> t,
                      nextDue |-> t + days * 24 * 3600 * 1000]]
    IN persist([m EXCEPT !.progObj[m.cardObj[c].prog] = q], t, ok)

---------------------------------------------------------------------------
(* Reset and clear (shell panel) *)

RECURSIVE resetLoop(_, _, _)
\* deck.cards.forEach(function (c) { c.stats = initStats(); c.sr = initSR(); })
resetLoop(cards, cObj, pObj) ==
    IF cards = <<>> THEN [cardObj |-> cObj, progObj |-> pObj]
    ELSE LET p == NewAddr(DOMAIN pObj)
         IN resetLoop(Tail(cards),
                      [cObj EXCEPT ![Head(cards)].prog = p],
                      (p :> InitProg) @@ pObj)

\* The reset removes the cards that have been graded
resetStats_dropsGradedCards(m, t, ok) ==
    IF ~m.deck.hasCards THEN [m EXCEPT !.threw = TRUE]
    ELSE persist([m EXCEPT !.deck.cards =
                     SelectSeq(@, LAMBDA a : m.progObj[m.cardObj[a].prog].stats.seen = 0)],
                 t, ok)

\* the btn-reset handler, confirmed
resetStats(m, t, ok) ==
    IF ~m.deck.hasCards THEN [m EXCEPT !.threw = TRUE]
    ELSE LET r == resetLoop(m.deck.cards, m.cardObj, m.progObj)
         IN persist([m EXCEPT !.cardObj = r.cardObj, !.progObj = r.progObj], t, ok)

\* the btn-clear handler, confirmed: it writes the record itself
clearDeck(m, t, ok) ==
    LET d == newDeck(t)
    IN IF ok
       THEN [m EXCEPT !.deck = d, !.storage.deck = Snapshot(d, m.cardObj, m.progObj)]
       ELSE [m EXCEPT !.deck = d, !.threw = TRUE]

---------------------------------------------------------------------------
(* Session engine *)

EmptySession == [pool |-> <<>>, idx |-> 0, correct |-> 0, wrongs |-> <<>>]

\* renderCard(): #card shows the card at session.idx, with its buttons bound to
\* that card object, or the summary when there is no card at session.idx.
renderCard(s) ==
    IF s.idx >= 0 /\ s.idx < Len(s.pool)
    THEN [kind |-> "card", card |-> s.pool[s.idx + 1], redo |-> FALSE,
          answered |-> FALSE]
    ELSE [kind |-> "summary", card |-> 0, redo |-> s.wrongs # <<>>,
          answered |-> FALSE]

\* The last card is never left
nextCard_staysOnLast(s) ==
    IF s.idx < Len(s.pool) - 1 THEN [s EXCEPT !.idx = @ + 1] ELSE s

\* nextCard going back to the first card after the last one
nextCard_wrapsAround(s) ==
    IF s.idx < Len(s.pool) - 1 THEN [s EXCEPT !.idx = @ + 1]
    ELSE [s EXCEPT !.idx = 0]

nextCard(s) ==
    IF s.idx < Len(s.pool) - 1 THEN [s EXCEPT !.idx = @ + 1]
    ELSE [s EXCEPT !.idx = Len(s.pool)]

\* Nothing is pushed
enqueueForRepeat_dropsCard(s, c) == s

\* The new pool is the wrongs array itself: pool: session.wrongs
redoWrongs_sharesArray(s) ==
    [session |-> [pool |-> s.wrongs, idx |-> 0, correct |-> 0, wrongs |-> <<>>],
     sliced |-> FALSE]

\* btn-redo-wrongs: session = { pool: session.wrongs.slice(), idx: 0,
\* correct: 0, wrongs: [] }; sliced says the pool is a new array.
redoWrongs(s) ==
    [session |-> [pool |-> s.wrongs, idx |-> 0, correct |-> 0, wrongs |-> <<>>],
     sliced |-> TRUE]

\* The card is put in front of the current one
enqueueForRepeat_beforeCurrent(s, c) ==
    [s EXCEPT !.pool = SubSeq(@, 1, s.idx) \o <<c>> \o SubSeq(@, s.idx + 1, Len(@))]

enqueueForRepeat(s, c) == [s EXCEPT !.pool = Append(@, c)]

\* The controls buildWorkingSet reads.
SessionSizes == {1, 20}

WorkingSetOptions ==
    [allowMCQ : BOOLEAN, allowFlash : {TRUE}, topics : {{}, {"B"}},
     wrongOnly : BOOLEAN, shuffle : BOOLEAN, size : SessionSizes]

\* buildWorkingSet(): every pool it can return (fisherYates draws the permutation)
buildWorkingSet(o, d, cObj, pObj) ==
    LET base == SelectSeq(d.cards, LAMBDA c :
                    \/ cObj[c].type = "mcq" /\ o.allowMCQ
                    \/ cObj[c].type = "flashcard" /\ o.allowFlash)
        byTopic == IF o.topics = {} THEN base
                   ELSE SelectSeq(base, LAMBDA c :
                            SeqToSet(cObj[c].topics) \cap o.topics # {})
        pool == IF o.wrongOnly
                THEN SelectSeq(byTopic, LAMBDA c :
                         pObj[cObj[c].prog].stats.correct < pObj[cObj[c].prog].stats.seen)
                ELSE byTopic
    IN {SubSeq(q, 1, Min2(Len(q), o.size)) :
            q \in IF o.shuffle THEN Perms(pool) ELSE {pool}}

\* gradeMCQ's verdict for the chosen letter
isCorrectMCQ(c, letter) == IndexOf(Letters, letter) - 1 = c.correct

---------------------------------------------------------------------------
(* Filter engine *)

\* The number of cards filterDeck returns at most in grid view mode
GridCap == 9

\* The longest list the model lets App.shuffleInPlace permute
MaxShuffle == 3

\* App.viewMode.get()
viewModeGet(st) == IF st.viewmode = "" THEN "single" ELSE st.viewmode

\* Whether the lower-cased search text occurs in the card's texts.  Of the
\* texts the model's cards hold, only the type "mcq" contains the text "mcq".
hayHas(c, search) == search = "MCQ" /\ c.type = "mcq"

\* The filters of App.filterDeck, applied in turn to a copy of deck.cards
\* dueOnly leaves out a card at the instant it falls due
narrow_dueStrictlyBefore(opts, d, cObj, pObj, t) ==
    LET byIds == IF opts.ids # <<>>
                 THEN SelectSeq(d.cards, LAMBDA c : cObj[c].id \in opts.ids[1])
                 ELSE d.cards
        byType == IF opts.type # ""
                  THEN SelectSeq(byIds, LAMBDA c : cObj[c].type = opts.type)
                  ELSE byIds
        byTopic == IF opts.topic # ""
                   THEN SelectSeq(byType, LAMBDA c : opts.topic \in SeqToSet(cObj[c].topics))
                   ELSE byType
        bySearch == IF opts.search # ""
                    THEN SelectSeq(byTopic, LAMBDA c : hayHas(cObj[c], opts.search))
                    ELSE byTopic
        wrong == IF opts.wrongOnly
                 THEN SelectSeq(bySearch, LAMBDA c :
                          pObj[cObj[c].prog].stats.correct < pObj[cObj[c].prog].stats.seen)
                 ELSE bySearch
    IN IF opts.dueOnly
       THEN SelectSeq(wrong, LAMBDA c : pObj[cObj[c].prog].sr.nextDue < t)
       ELSE wrong

narrow(opts, d, cObj, pObj, t) ==
    LET byIds == IF opts.ids # <<>>
                 THEN SelectSeq(d.cards, LAMBDA c : cObj[c].id \in opts.ids[1])
                 ELSE d.cards
        byType == IF opts.type # ""
                  THEN SelectSeq(byIds, LAMBDA c : cObj[c].type = opts.type)
                  ELSE byIds
        byTopic == IF opts.topic # ""
                   THEN SelectSeq(byType, LAMBDA c : opts.topic \in SeqToSet(cObj[c].topics))
                   ELSE byType
        bySearch == IF opts.search # ""
                    THEN SelectSeq(byTopic, LAMBDA c : hayHas(cObj[c], opts.search))
                    ELSE byTopic
        wrong == IF opts.wrongOnly
                 THEN SelectSeq(bySearch, LAMBDA c :
                          pObj[cObj[c].prog].stats.correct < pObj[cObj[c].prog].stats.seen)
                 ELSE bySearch
    IN IF opts.dueOnly
       THEN SelectSeq(wrong, LAMBDA c : pObj[cObj[c].prog].sr.nextDue <= t)
       ELSE wrong

\* opts.limit, then the grid view mode's cut
truncate(arr, opts, st) ==
    LET limited == IF opts.limit # <<>> /\ opts.limit[1] # 0 /\ Len(arr) > opts.limit[1]
                   THEN SubSeq(arr, 1, opts.limit[1])
                   ELSE arr
    IN IF viewModeGet(st) = "grid" /\ Len(limited) > GridCap
       THEN SubSeq(limited, 1, GridCap)
       ELSE limited

\* The array that is shuffled is deck.cards itself when no filter has copied it
filterDeck_shufflesDeck(opts, d, cObj, pObj, st, t) ==
    { [result |-> truncate(q, opts, st),
       cards |-> IF Len(q) = Len(d.cards) THEN q ELSE d.cards] :
        q \in IF opts.shuffle THEN Perms(narrow(opts, d, cObj, pObj, t))
              ELSE {narrow(opts, d, cObj, pObj, t)} }

\* App.filterDeck(opts): every list it can return (shuffleInPlace draws the
\* permutation), with deck.cards as the call leaves it.
filterDeck(opts, d, cObj, pObj, st, t) ==
    { [result |-> truncate(q, opts, st), cards |-> d.cards] :
        q \in IF opts.shuffle THEN Perms(narrow(opts, d, cObj, pObj, t))
              ELSE {narrow(opts, d, cObj, pObj, t)} }

\* if (!pool.length) { alert(...); return; } startSessionFromPool(pool):
\* what startSession, window.startSession and App.startSessionFromFilters do
\* with the pool they have.  render: renderCard() is reached.
startOrNotice_startsEmptyPool(m, s, pool, ok) ==
    [mem |-> IF pool = <<>> \/ ok THEN m ELSE [m EXCEPT !.threw = TRUE],
     session |-> [pool |-> pool, idx |-> 0, correct |-> 0, wrongs |-> <<>>],
     render |-> pool = <<>> \/ ok]

startOrNotice_keepsWrongs(m, s, pool, ok) ==
    IF pool = <<>> THEN [mem |-> m, session |-> s, render |-> FALSE]
    ELSE [mem |-> IF ok THEN [m EXCEPT !.storage.sessions = @ + 1]
                  ELSE [m EXCEPT !.threw = TRUE],
          session |-> [pool |-> pool, idx |-> 0, correct |-> s.correct,
                       wrongs |-> s.wrongs],
          render |-> ok]

startOrNotice_countsEmptyStart(m, s, pool, ok) ==
    IF pool = <<>>
    THEN [mem |-> [m EXCEPT !.storage.sessions = @ + 1], session |-> s,
          render |-> FALSE]
    ELSE [mem |-> IF ok THEN [m EXCEPT !.storage.sessions = @ + 1]
                  ELSE [m EXCEPT !.threw = TRUE],
          session |-> [pool |-> pool, idx |-> 0, correct |-> 0, wrongs |-> <<>>],
          render |-> ok]

startOrNotice(m, s, pool, ok) ==
    IF pool = <<>> THEN [mem |-> m, session |-> s, render |-> FALSE]
    ELSE [mem |-> IF ok THEN [m EXCEPT !.storage.sessions = @ + 1]
                  ELSE [m EXCEPT !.threw = TRUE],
          session |-> [pool |-> pool, idx |-> 0, correct |-> 0, wrongs |-> <<>>],
          render |-> ok]

\* App.startSessionFromFilters(opts): the pools it can hand to
\* startSessionFromPool.  count 0: not given.
filtersPool(o, d, cObj, pObj, st, t) ==
    LET count == IF o.count = 0 THEN 20 ELSE IF o.count < 1 THEN 1 ELSE o.count
        cram == o.plan = "cram"
        daily == o.plan = "daily"
        opts == [ids |-> <<>>, type |-> o.type, topic |-> "", search |-> "",
                 wrongOnly |-> (cram \/ (~daily /\ o.wrongOnly)),
                 dueOnly |-> (daily \/ (~cram /\ o.dueOnly)),
                 shuffle |-> (cram \/ (~daily /\ o.shuffle)),
                 limit |-> <<>>]
    IN { SubSeq(r.result, 1, Min2(Len(r.result), count)) :
            r \in filterDeck(opts, d, cObj, pObj, st, t) }

---------------------------------------------------------------------------
(* Object identity: the live objects, renumbered in the order the deck, the
   session, the view and the last handler reach them *)

Roots(d, s, v, l) ==
    d.cards \o s.pool \o s.wrongs
        \o (IF v.card = 0 THEN <<>> ELSE <<v.card>>)
        \o (IF l.card = 0 THEN <<>> ELSE <<l.card>>)

Canon(d, cObj, pObj, s, v, l) ==
    LET order == Dedup(Roots(d, s, v, l))
        ren(a) == IF a = 0 THEN 0 ELSE IndexOf(order, a)
        porder == Dedup([i \in 1..Len(order) |-> cObj[order[i]].prog])
    IN [deck |-> [d EXCEPT !.cards = [i \in 1..Len(d.cards) |-> ren(d.cards[i])]],
        cardObj |-> [i \in 1..Len(order) |->
                        [cObj[order[i]] EXCEPT !.prog = IndexOf(porder, @)]],
        progObj |-> [i \in 1..Len(porder) |-> pObj[porder[i]]],
        session |-> [s EXCEPT !.pool = [i \in 1..Len(s.pool) |-> ren(s.pool[i])],
                              !.wrongs = [i \in 1..Len(s.wrongs) |-> ren(s.wrongs[i])]],
        view |-> [v EXCEPT !.card = ren(@)],
        last |-> [l EXCEPT !.card = ren(@)]]

\* What someone following the session has counted once handler l has run and
\* left session s: the size of the pool the session was started on and the
\* advances (nextCard calls) since, while nothing but advances has moved the
\* session (plain); and the array that was session.wrongs when the wrong
\* cards were last redone (oldWrongs, by ids), which a push on the pool
\* reaches when the new pool is that same array (shared).
Track(p, l, s) ==
    IF p.stage # "session" THEN p
    ELSE IF l.op = "redoWrongs"
    THEN [p EXCEPT !.size = 0, !.advances = 0, !.plain = FALSE,
                   !.oldWrongs = [i \in 1..Len(session.wrongs) |->
                                     cardObj[session.wrongs[i]].id],
                   !.shared = ~redoWrongs(session).sliced]
    ELSE IF l.op \in {"repeat", "miss"} /\ ~l.threw
    THEN [p EXCEPT !.size = 0, !.advances = 0, !.plain = FALSE,
                   !.oldWrongs = IF p.shared THEN Append(@, cardObj[view.card].id)
                                 ELSE @]
    ELSE IF l.op \in {"start", "startWindow", "startFilters"}
    THEN [p EXCEPT !.size = Len(s.pool), !.advances = 0, !.plain = ~l.threw,
                   !.oldWrongs = IF l.threw THEN @ ELSE <<>>,
                   !.shared = IF l.threw THEN @ ELSE FALSE]
    ELSE IF \/ l.op \in {"next", "timer"}
            \/ /\ l.op = "got" /\ ~l.threw
               /\ ~(settings.autoAdvanceOnCorrect /\ session.idx < Len(session.pool) - 1)
    THEN IF p.plain /\ p.advances < p.size
         THEN [p EXCEPT !.advances = @ + 1]
         ELSE [p EXCEPT !.size = 0, !.advances = 0, !.plain = FALSE]
    ELSE IF l.op \in {"got", "miss", "repeat", "prev", "end", "redoWrongs", "load"}
    THEN [p EXCEPT !.size = 0, !.advances = 0, !.plain = FALSE]
    ELSE p

\* The state a handler leaves: the memory m, the session s, the view v, the
\* batch b being read.
CommitWith(m, s, v, l, b) ==
    \E c \in {Canon(m.deck, m.cardObj, m.progObj, s, v, l)} :
       /\ deck' = c.deck
       /\ cardObj' = c.cardObj
       /\ progObj' = c.progObj
       /\ storage' = m.storage
       /\ session' = c.session
       /\ view' = c.view
       /\ last' = c.last
       /\ probe' = Track(probe, c.last, c.session)
       /\ importing' = b

Commit(m, s, v, l) == CommitWith(m, s, v, l, importing)

Here == Mem(deck, cardObj, progObj, storage)

Last(op, c, isCorrect, threw, batch, replace) ==
    [op |-> op, card |-> c, isCorrect |-> isCorrect, threw |-> threw,
     batch |-> batch, replace |-> replace]

Ran(op, threw) == Last(op, 0, FALSE, threw, <<>>, FALSE)

---------------------------------------------------------------------------
(* Initial state: a page load over the record an earlier run stored *)

\* No files are being read; batches counts the file selections of the run.
NoImport ==
    [pending |-> 0, collected |-> <<>>, replace |-> FALSE, files |-> <<>>,
     unread |-> {}, batches |-> 0]

Loaded(st, t) ==
    LET ld == loadDeck(st, t)
        c == Canon(ld.deck, ld.cardObj, ld.progObj, EmptySession,
                   renderCard(EmptySession), Ran("load", FALSE))
    IN /\ deck = c.deck
       /\ cardObj = c.cardObj
       /\ progObj = c.progObj
       /\ session = c.session
       /\ view = c.view
       /\ last = c.last
       /\ importing = NoImport

\* What an earlier run left in localStorage: a deck of two cards, whose card "a"
\* was graded five times a day before (right, right, wrong, right, right).
StoredDeck ==
    [kind |-> "deck", version |-> 1, createdAt |-> DayMs, updatedAt |-> DayMs,
     hasCards |-> TRUE,
     cards |-> << [id |-> "7", type |-> "mcq", front |-> 1, correct |-> 1,
                   topics |-> <<"A", "B">>, stats |-> initStats, sr |-> initSR],
                  [id |-> "a", type |-> "flashcard", front |-> 1, correct |-> 0,
                   topics |-> <<"A">>,
                   stats |-> [seen |-> 5, correct |-> 4, streak |-> 2,
                              lastSeen |-> <<DayMs>>],
                   sr |-> [intervalDays |-> 7, nextDue |-> DayMs + 7 * DayMs,
                           lastReviewed |-> DayMs]] >>,
     topicIndex |-> [t \in {"A", "B"} |->
                        IF t = "A" THEN <<"7", "a">> ELSE <<"7">>]]

\* No caller of the card model or the filter engine is being followed.
NoProbe == [stage |-> "none"]

Init ==
    /\ now = StartMs
    /\ storage = [deck |-> StoredDeck, sessions |-> 0, viewmode |-> ""]
    /\ settings = [autoAdvanceOnCorrect |-> FALSE]
    /\ timers = 0
    /\ probe = NoProbe
    /\ Loaded(storage, now)

---------------------------------------------------------------------------
(* Handlers.  ok: whether the handler's localStorage.setItem succeeds. *)

\* A day passes.
Tick ==
    /\ now < MaxNow
    /\ now' = now + TickMs
    /\ Commit(Here, session, view, Ran("tick", FALSE))
    /\ UNCHANGED <<settings, timers>>

\* The page is loaded again: deck = loadDeck(), a new session object, no timers.
Reload ==
    LET ld == loadDeck(storage, now)
    IN /\ Commit([Mem(ld.deck, ld.cardObj, ld.progObj, storage) EXCEPT !.threw = FALSE],
                 EmptySession, renderCard(EmptySession), Ran("load", FALSE))
       /\ timers' = 0
       /\ UNCHANGED <<settings, now>>

\* App.markResult(cardId, wasCorrect)
MarkResult(cardId, wasCorrect, ok) ==
    /\ now < MaxNow
    /\ now' = now + TickMs
    /\ LET m == markResult(Here, cardId, wasCorrect, now', ok)
           hit == {a \in SeqToSet(deck.cards) : cardObj[a].id = cardId}
           c == IF hit = {} THEN 0 ELSE CHOOSE a \in hit : TRUE
       IN Commit(m, session, view,
                 Last("markResult", c, wasCorrect, m.threw, <<>>, FALSE))
    /\ UNCHANGED <<settings, timers>>

\* file-input change with one file, whose reader completes with `collected`
ImportFile(collected, replace, ok1, ok2) ==
    /\ (~replace => ok1)
    /\ (collected = <<>> => ok1 /\ ok2)
    /\ LET m == doneOne(Here, 0, collected, replace, now, ok1, ok2)
       IN Commit(m, session, view,
                 Last("import", 0, FALSE, m.threw, collected, replace))
    /\ UNCHANGED <<settings, timers, now>>

ResetStats(ok) ==
    /\ LET m == resetStats(Here, now, ok)
       IN Commit(m, session, view, Ran("reset", m.threw))
    /\ UNCHANGED <<settings, timers, now>>

ClearDeck(ok) ==
    /\ LET m == clearDeck(Here, now, ok)
       IN Commit(m, session, view, Ran("clear", m.threw))
    /\ UNCHANGED <<settings, timers, now>>

\* The ids of the cards of a pool
PoolIds(pool, cObj) == [i \in 1..Len(pool) |-> cObj[pool[i]].id]

\* A start with the pool the entry point has: the notice and nothing else when
\* it is empty, startSessionFromPool when it is not.  The handler's label tells
\* which it was, and keeps the ids of the pool.
Start(pool, op, emptyOp, ok) ==
    /\ pool = <<>> => ok
    /\ pool # <<>> => storage.sessions < MaxSessions
    /\ \E r \in {startOrNotice(Here, session, pool, ok)} :
          Commit(r.mem, r.session,
                 IF r.render THEN renderCard(r.session) ELSE view,
                 Last(IF pool = <<>> THEN emptyOp ELSE op, 0, FALSE, r.mem.threw,
                      PoolIds(pool, cardObj), FALSE))

\* startSession(): btn-start, and btn-new-session on the summary
StartSession(o, ok) ==
    /\ deck.hasCards
    /\ \E pool \in buildWorkingSet(o, deck, cardObj, progObj) :
          Start(pool, "start", "startEmpty", ok)
    /\ UNCHANGED <<settings, timers, now>>

\* window.startSession(selected), with a list App.filterDeck returned
WindowStartSession(o, ok) ==
    /\ deck.hasCards
    /\ \E r \in filterDeck(o, deck, cardObj, progObj, storage, now) :
          Start(r.result, "startWindow", "startWindowEmpty", ok)
    /\ UNCHANGED <<settings, timers, now>>

\* App.startSessionFromFilters(opts)
StartSessionFromFilters(o, ok) ==
    /\ deck.hasCards
    /\ \E pool \in filtersPool(o, deck, cardObj, progObj, storage, now) :
          Start(pool, "startFilters", "startFiltersEmpty", ok)
    /\ UNCHANGED <<settings, timers, now>>

\* btn-got, bound to the flashcard the view shows
Got(ok) ==
    /\ view.kind = "card"
    /\ cardObj[view.card].type # "mcq"
    /\ now < MaxNow
    /\ now' = now + TickMs
    /\ LET c == view.card
           m == record(Here, c, TRUE, now', ok)
           s == [session EXCEPT !.correct = @ + 1]
           auto == settings.autoAdvanceOnCorrect /\ session.idx < Len(session.pool) - 1
       IN IF m.threw
          THEN Commit(m, session, view, Last("got", c, TRUE, TRUE, <<>>, FALSE))
               /\ timers' = timers
          ELSE IF auto
          THEN /\ timers < MaxTimers
               /\ Commit(m, s, view, Last("got", c, TRUE, FALSE, <<>>, FALSE))
               /\ timers' = timers + 1
          ELSE /\ Commit(m, nextCard(s), renderCard(nextCard(s)),
                         Last("got", c, TRUE, FALSE, <<>>, FALSE))
               /\ timers' = timers
    /\ UNCHANGED settings

\* btn-miss
Miss(ok) ==
    /\ view.kind = "card"
    /\ cardObj[view.card].type # "mcq"
    /\ now < MaxNow
    /\ Len(session.pool) < MaxPool
    /\ now' = now + TickMs
    /\ LET c == view.card
           m == record(Here, c, FALSE, now', ok)
           s == nextCard(enqueueForRepeat([session EXCEPT !.wrongs = Append(@, c)], c))
       IN IF m.threw
          THEN Commit(m, session, view, Last("miss", c, FALSE, TRUE, <<>>, FALSE))
          ELSE Commit(m, s, renderCard(s), Last("miss", c, FALSE, FALSE, <<>>, FALSE))
    /\ UNCHANGED <<settings, timers>>

\* a .choice button of the MCQ the view shows: gradeMCQ(c, letter)
Choose(letter, ok) ==
    /\ view.kind = "card"
    /\ cardObj[view.card].type = "mcq"
    /\ ~view.answered
    /\ now < MaxNow
    /\ now' = now + TickMs
    /\ LET c == view.card
           isCorrect == isCorrectMCQ(cardObj[c], letter)
           m == record(Here, c, isCorrect, now', ok)
           s == IF isCorrect THEN [session EXCEPT !.correct = @ + 1]
                ELSE [session EXCEPT !.wrongs = Append(@, c)]
           auto == /\ isCorrect
                   /\ settings.autoAdvanceOnCorrect
                   /\ session.idx < Len(session.pool) - 1
       IN IF m.threw
          THEN Commit(m, session, view, Last("choose", c, isCorrect, TRUE, <<>>, FALSE))
               /\ timers' = timers
          ELSE /\ auto => timers < MaxTimers
               /\ Commit(m, s, [view EXCEPT !.answered = TRUE],
                         Last("choose", c, isCorrect, FALSE, <<>>, FALSE))
               /\ timers' = IF auto THEN timers + 1 ELSE timers
    /\ UNCHANGED settings

\* btn-repeat-f and btn-repeat: enqueueForRepeat(c); nextCard()
Repeat_later ==
    /\ view.kind = "card"
    /\ Len(session.pool) < MaxPool
    /\ LET s == nextCard(enqueueForRepeat(session, view.card))
       IN Commit(Here, s, renderCard(s), Ran("repeat", FALSE))
    /\ UNCHANGED <<settings, timers, now>>

\* btn-next, and btn-next-inline of an MCQ
Next_card ==
    /\ Commit(Here, nextCard(session), renderCard(nextCard(session)), Ran("next", FALSE))
    /\ UNCHANGED <<settings, timers, now>>

\* btn-prev
Prev_card ==
    /\ IF session.idx > 0
       THEN LET s == [session EXCEPT !.idx = @ - 1]
            IN Commit(Here, s, renderCard(s), Ran("prev", FALSE))
       ELSE Commit(Here, session, view, Ran("prev", FALSE))
    /\ UNCHANGED <<settings, timers, now>>

\* btn-end
End_session ==
    /\ LET s == [session EXCEPT !.idx = Len(session.pool)]
       IN Commit(Here, s, renderCard(s), Ran("end", FALSE))
    /\ UNCHANGED <<settings, timers, now>>

\* btn-redo-wrongs, which the summary shows when it was rendered with wrongs
RedoWrongs ==
    /\ view.kind = "summary"
    /\ view.redo
    /\ LET s == redoWrongs(session).session
       IN Commit(Here, s, renderCard(s), Ran("redoWrongs", FALSE))
    /\ UNCHANGED <<settings, timers, now>>

\* a pending setTimeout(nextCard, ...) fires
TimerFires ==
    /\ timers > 0
    /\ timers' = timers - 1
    /\ Commit(Here, nextCard(session), renderCard(nextCard(session)), Ran("timer", FALSE))
    /\ UNCHANGED <<settings, now>>

\* tab-learn / tab-test: setMode() ends with safe(renderCard)
SetMode ==
    /\ Commit(Here, session, renderCard(session), Ran("setMode", FALSE))
    /\ UNCHANGED <<settings, timers, now>>

\* opt-auto-adv change: App.settings.set('autoAdvanceOnCorrect', checked)
SetAutoAdvance(val) ==
    /\ settings' = [settings EXCEPT !.autoAdvanceOnCorrect = val]
    /\ Commit(Here, session, view, Ran("setAutoAdvance", FALSE))
    /\ UNCHANGED <<timers, now>>

CardIds == {"a", "7", "zz"}

\* The handlers of the deck store, with import batches from B and write outcomes
\* from W.
DeckHandlers(B, W) ==
    \/ Tick
    \/ Reload
    \/ \E id \in CardIds, w \in BOOLEAN, ok \in W : MarkResult(id, w, ok)
    \/ \E b \in B, r \in BOOLEAN, ok1 \in W, ok2 \in W : ImportFile(b, r, ok1, ok2)
    \/ \E ok \in W : ResetStats(ok)
    \/ \E ok \in W : ClearDeck(ok)

\* The deck store, the import merger and the scheduler behind App.markResult:
\* every write succeeds.
Next == DeckHandlers(Batches, {TRUE})

Spec == Init /\ [][Next]_vars

\* The session controls and the import the grading specifications draw.
GradeOptions ==
    { [allowMCQ |-> TRUE, allowFlash |-> TRUE, topics |-> {}, wrongOnly |-> FALSE,
       shuffle |-> FALSE, size |-> 20],
      [allowMCQ |-> TRUE, allowFlash |-> TRUE, topics |-> {}, wrongOnly |-> FALSE,
       shuffle |-> TRUE, size |-> 1] }

GradeBatches ==
    { <<[id |-> "a", type |-> "flashcard", front |-> 2, correct |-> 0,
         topics |-> <<"B", "B">>, prog |-> <<>>]>> }

GradeHandlers(W) ==
    \/ Tick
    \/ \E id \in CardIds, w \in BOOLEAN, ok \in W : MarkResult(id, w, ok)
    \/ \E b \in GradeBatches, r \in BOOLEAN, ok1 \in W, ok2 \in W :
          ImportFile(b, r, ok1, ok2)
    \/ \E ok \in W : ResetStats(ok)
    \/ \E ok \in W : ClearDeck(ok)
    \/ \E o \in GradeOptions, ok \in W : StartSession(o, ok)
    \/ \E ok \in W : Got(ok)
    \/ \E ok \in W : Miss(ok)
    \/ \E l \in SeqToSet(Letters), ok \in W : Choose(l, ok)
    \/ Next_card

\* Gradings through a session and through App.markResult, interleaved with
\* import, reset and clear: every write succeeds.
GradeNext == GradeHandlers({TRUE})

GradeSpec == Init /\ [][GradeNext]_vars

\* A session and an import whose writes to localStorage may fail.
FailNext ==
    \/ \E b \in GradeBatches, r \in BOOLEAN, ok1 \in BOOLEAN, ok2 \in BOOLEAN :
          ImportFile(b, r, ok1, ok2)
    \/ \E o \in GradeOptions, ok \in BOOLEAN : StartSession(o, ok)
    \/ \E ok \in BOOLEAN : Got(ok)
    \/ \E ok \in BOOLEAN : Miss(ok)
    \/ \E l \in SeqToSet(Letters), ok \in BOOLEAN : Choose(l, ok)
    \/ Next_card

FailSpec == Init /\ [][FailNext]_vars

\* App.getDeck(), called by a page script: it reads the record and changes
\* nothing.
GetDeck ==
    /\ Commit(Here, session, view, Ran("getDeck", getDeckThrows(storage)))
    /\ UNCHANGED <<settings, timers, now>>

\* What localStorage may hold when the page loads: nothing, text that is not
\* JSON, the text null, an object without cards, or a deck.
DurableRecords ==
    {NoRecord("absent"), NoRecord("unparseable"), NoRecord("null"), NoRecord("deck"),
     StoredDeck}

LoadInit ==
    /\ now = StartMs
    /\ \E rec \in DurableRecords : storage = [deck |-> rec, sessions |-> 0, viewmode |-> ""]
    /\ settings = [autoAdvanceOnCorrect |-> FALSE]
    /\ timers = 0
    /\ probe = NoProbe
    /\ Loaded(storage, now)

\* Page loads and App.getDeck calls over every durable record, with the deck
\* handlers that write the record.
LoadNext ==
    \/ Tick
    \/ Reload
    \/ GetDeck
    \/ \E id \in CardIds, w \in BOOLEAN : MarkResult(id, w, TRUE)
    \/ \E b \in GradeBatches, r \in BOOLEAN : ImportFile(b, r, TRUE, TRUE)
    \/ ResetStats(TRUE)
    \/ ClearDeck(TRUE)

LoadSpec == LoadInit /\ [][LoadNext]_vars

---------------------------------------------------------------------------
(* The card model over partial inputs: JavaScript values, with their types *)

\* A primitive value.  n is the number of a "number", s the characters of a
\* "string"; a time is the number of its instant.
JsVal(kind, n, s) == [kind |-> kind, n |-> n, s |-> s]

undefined == JsVal("undefined", 0, <<>>)

null == JsVal("null", 0, <<>>)

NaN == JsVal("NaN", 0, <<>>)

Num(n) == JsVal("number", n, <<>>)

Str(s) == JsVal("string", 0, s)

\* !v
Falsy(v) ==
    \/ v.kind \in {"undefined", "null", "NaN"}
    \/ v.kind = "number" /\ v.n = 0
    \/ v.kind = "string" /\ v.s = <<>>

\* typeof v
typeof(v) ==
    CASE v.kind = "null" -> "object"
      [] v.kind = "NaN" -> "number"
      [] OTHER -> v.kind

\* a + b and a * b on numbers, null counting as 0 and undefined as NaN
ToNumber(v) ==
    CASE v.kind = "number" -> v
      [] v.kind = "null" -> Num(0)
      [] OTHER -> NaN

Plus(a, b) ==
    IF ToNumber(a) = NaN \/ ToNumber(b) = NaN THEN NaN
    ELSE Num(ToNumber(a).n + ToNumber(b).n)

Times(a, b) ==
    IF ToNumber(a) = NaN \/ ToNumber(b) = NaN THEN NaN
    ELSE Num(ToNumber(a).n * ToNumber(b).n)

\* Math.min(a, b)
MathMin(a, b) ==
    IF ToNumber(a) = NaN \/ ToNumber(b) = NaN THEN NaN
    ELSE Num(Min2(ToNumber(a).n, ToNumber(b).n))

\* String.prototype.trim, on the characters of a string
RECURSIVE trim(_)
trim(s) ==
    IF s = <<>> THEN s
    ELSE IF Head(s) = " " THEN trim(Tail(s))
    ELSE IF s[Len(s)] = " " THEN trim(Front(s))
    ELSE s

LowerCase == <<"a", "b", "c", "d">>

\* String.prototype.toUpperCase
toUpperCase(s) ==
    [i \in 1..Len(s) |->
        IF s[i] \in SeqToSet(LowerCase) THEN Letters[IndexOf(LowerCase, s[i])] ELSE s[i]]

\* { A: 0, B: 1, C: 2, D: 3 }[key] ?? 0
LetterIndex(key) ==
    IF \E i \in 1..Len(Letters) : key = <<Letters[i]>>
    THEN (CHOOSE i \in 1..Len(Letters) : key = <<Letters[i]>>) - 1
    ELSE 0

\* uid(): Math.random().toString(36).slice(2, 10), taken to be a non-empty
\* string; two of the strings it can return.
Uids == {<<"k", "3">>, <<"z", "9">>}

\* initStats() and initSR() as objects of JavaScript values
JsStats(st) ==
    [seen |-> Num(st.seen), correct |-> Num(st.correct), streak |-> Num(st.streak),
     lastSeen |-> IF st.lastSeen = <<>> THEN null ELSE Num(st.lastSeen[1])]

JsSR(sr) ==
    [intervalDays |-> Num(sr.intervalDays), nextDue |-> Num(sr.nextDue),
     lastReviewed |-> Num(sr.lastReviewed)]

\* {}: an object none of whose fields is set.  An object-valued field (stats,
\* sr, topics) is <<>> when it is not set and <<object>> when it is.
EmptyObject ==
    [id |-> undefined, type |-> undefined, correct |-> undefined, answer |-> undefined,
     stats |-> <<>>, sr |-> <<>>, topics |-> <<>>]

EmptyStats ==
    [seen |-> undefined, correct |-> undefined, streak |-> undefined,
     lastSeen |-> undefined]

EmptySR == [intervalDays |-> undefined, nextDue |-> undefined, lastReviewed |-> undefined]

\* uid() is called whether or not the card has an id
hydrateCard_alwaysNewId(raw, u) ==
    LET c == IF raw = <<>> THEN EmptyObject ELSE raw[1]
    IN [c EXCEPT !.id = Str(u),
                 !.type = IF Falsy(c.type) THEN Str(<<"flashcard">>) ELSE c.type,
                 !.stats = IF c.stats = <<>> THEN <<JsStats(initStats)>> ELSE c.stats,
                 !.sr = IF c.sr = <<>> THEN <<JsSR(initSR)>> ELSE c.sr,
                 !.topics = IF c.topics = <<>> THEN << <<>> >> ELSE c.topics,
                 !.correct = IF typeof(c.correct) = "undefined"
                                /\ typeof(c.answer) = "string"
                             THEN Num(LetterIndex(toUpperCase(trim(c.answer.s))))
                             ELSE c.correct]

\* The answer letter is looked up as it was typed
hydrateCard_letterAsTyped(raw, u) ==
    LET c == IF raw = <<>> THEN EmptyObject ELSE raw[1]
    IN [c EXCEPT !.id = IF Falsy(c.id) THEN Str(u) ELSE c.id,
                 !.type = IF Falsy(c.type) THEN Str(<<"flashcard">>) ELSE c.type,
                 !.stats = IF c.stats = <<>> THEN <<JsStats(initStats)>> ELSE c.stats,
                 !.sr = IF c.sr = <<>> THEN <<JsSR(initSR)>> ELSE c.sr,
                 !.topics = IF c.topics = <<>> THEN << <<>> >> ELSE c.topics,
                 !.correct = IF typeof(c.correct) = "undefined"
                                /\ typeof(c.answer) = "string"
                             THEN Num(LetterIndex(c.answer.s))
                             ELSE c.correct]

\* hydrateCard(c) for any c: raw is <<>> for null or undefined and <<c>> for
\* an object; u is what uid() returns if it is called.  The value of the
\* object it returns.
hydrateCardRaw(raw, u) ==
    LET c == IF raw = <<>> THEN EmptyObject ELSE raw[1]
    IN [c EXCEPT !.id = IF Falsy(c.id) THEN Str(u) ELSE c.id,
                 !.type = IF Falsy(c.type) THEN Str(<<"flashcard">>) ELSE c.type,
                 !.stats = IF c.stats = <<>> THEN <<JsStats(initStats)>> ELSE c.stats,
                 !.sr = IF c.sr = <<>> THEN <<JsSR(initSR)>> ELSE c.sr,
                 !.topics = IF c.topics = <<>> THEN << <<>> >> ELSE c.topics,
                 !.correct = IF typeof(c.correct) = "undefined"
                                /\ typeof(c.answer) = "string"
                             THEN Num(LetterIndex(toUpperCase(trim(c.answer.s))))
                             ELSE c.correct]

\* gradeMCQ's verdict on a hydrated card: c.correct when it is a number, the
\* answer letter (or 'A') when it is not
gradeMCQVerdict(c, letter) ==
    IF typeof(c.correct) = "number"
    THEN Num(IndexOf(Letters, letter) - 1) = c.correct
    ELSE Str(<<letter>>) = (IF Falsy(c.answer) THEN Str(<<"A">>) ELSE c.answer)

\* record(c, isCorrect) on a hydrated card, in JavaScript arithmetic
recordRaw(c, isCorrect, t) ==
    LET st == c.stats[1]
        streak == IF isCorrect THEN Plus(st.streak, Num(1)) ELSE Num(0)
        stepIdx == MathMin(streak, Num(Len(SR_STEPS) - 1))
        days == IF stepIdx.kind = "number" /\ stepIdx.n \in 0..(Len(SR_STEPS) - 1)
                THEN Num(SR_STEPS[stepIdx.n + 1])
                ELSE undefined
    IN [c EXCEPT !.stats = << [seen |-> Plus(st.seen, Num(1)),
                               correct |-> IF isCorrect THEN Plus(st.correct, Num(1))
                                           ELSE st.correct,
                               streak |-> streak,
                               lastSeen |-> Num(t)] >>,
                 !.sr = << [intervalDays |-> days,
                            lastReviewed |-> Num(t),
                            nextDue |-> Plus(Num(t), Times(days, Num(DayMs)))] >>]

\* The inputs hydrateCard is given: null, and objects each of whose fields is
\* missing, empty or set; a stats or sr object may be {} or carry every field.
RawCards ==
    {<<>>} \cup
    { <<c>> : c \in
        [id : {undefined, Str(<<>>), Str(<<"a">>)},
         type : {undefined, Str(<<"mcq">>)},
         correct : {undefined, null, Num(0), Num(2)},
         answer : {undefined, Str(<<"B">>), Str(<<" ", "c", " ">>), Str(<<"x">>),
                   Str(<<>>)},
         stats : {<<>>, <<EmptyStats>>,
                  << [seen |-> Num(2), correct |-> Num(1), streak |-> Num(1),
                      lastSeen |-> Num(DayMs)] >>},
         sr : {<<>>, <<EmptySR>>,
               << [intervalDays |-> Num(3), nextDue |-> Num(4 * DayMs),
                   lastReviewed |-> Num(DayMs)] >>},
         topics : {<<>>, << <<"A">> >>}] }

\* A caller holds a raw card.
HydrateInit ==
    /\ now = StartMs
    /\ storage = [deck |-> StoredDeck, sessions |-> 0, viewmode |-> ""]
    /\ settings = [autoAdvanceOnCorrect |-> FALSE]
    /\ timers = 0
    /\ \E raw \in RawCards : probe = [stage |-> "raw", raw |-> raw]
    /\ Loaded(storage, now)

\* hydrateCard(c)
HydrateCard ==
    /\ probe.stage = "raw"
    /\ \E u \in Uids :
          probe' = [stage |-> "hydrated", raw |-> probe.raw,
                    once |-> hydrateCardRaw(probe.raw, u)]
    /\ UNCHANGED <<deck, cardObj, progObj, storage, session, view, settings, timers, importing,
                   now, last>>

\* hydrateCard(hydrateCard(c)): what a later load or import does to the card
HydrateCardAgain ==
    /\ probe.stage = "hydrated"
    /\ \E u \in Uids :
          probe' = [stage |-> "rehydrated", raw |-> probe.raw, once |-> probe.once,
                    twice |-> hydrateCardRaw(<<probe.once>>, u)]
    /\ UNCHANGED <<deck, cardObj, progObj, storage, session, view, settings, timers, importing,
                   now, last>>

\* The hydrated card is shown as an MCQ and a choice is clicked: gradeMCQ(c, letter)
GradeHydrated(letter) ==
    /\ probe.stage = "hydrated"
    /\ LET isCorrect == gradeMCQVerdict(probe.once, letter)
       IN probe' = [stage |-> "graded", raw |-> probe.raw, once |-> probe.once,
                    letter |-> letter, isCorrect |-> isCorrect,
                    after |-> recordRaw(probe.once, isCorrect, now)]
    /\ UNCHANGED <<deck, cardObj, progObj, storage, session, view, settings, timers, importing,
                   now, last>>

HydrateNext ==
    \/ HydrateCard
    \/ HydrateCardAgain
    \/ \E l \in SeqToSet(Letters) : GradeHydrated(l)

HydrateSpec == HydrateInit /\ [][HydrateNext]_vars

---------------------------------------------------------------------------
(* Filter engine: one call of App.filterDeck *)

\* A record persist wrote for a deck of these cards
StoredDeckOf(cards) ==
    [kind |-> "deck", version |-> 1, createdAt |-> DayMs, updatedAt |-> DayMs,
     hasCards |-> TRUE, cards |-> cards,
     topicIndex |-> buildTopicIndex([i \in 1..Len(cards) |-> i], cards)]

\* Three cards with the topics A, B and A+B: the first was answered wrong once
\* and is due, the second was never seen, the third falls due a day after the
\* page load.
ThreeCards ==
    << [id |-> "01", type |-> "flashcard", front |-> 1, correct |-> 0, topics |-> <<"A">>,
        stats |-> [seen |-> 2, correct |-> 1, streak |-> 1, lastSeen |-> <<DayMs>>],
        sr |-> [intervalDays |-> 1, nextDue |-> StartMs, lastReviewed |-> DayMs]],
       [id |-> "02", type |-> "mcq", front |-> 2, correct |-> 1, topics |-> <<"B">>,
        stats |-> initStats, sr |-> initSR],
       [id |-> "03", type |-> "flashcard", front |-> 3, correct |-> 0,
        topics |-> <<"A", "B">>,
        stats |-> [seen |-> 1, correct |-> 1, streak |-> 1, lastSeen |-> <<StartMs>>],
        sr |-> [intervalDays |-> 3, nextDue |-> StartMs + DayMs,
                lastReviewed |-> StartMs - 2 * DayMs]] >>

TenIds == <<"01", "02", "03", "04", "05", "06", "07", "08", "09", "10">>

\* One card more than the grid shows, all alike but for the id
ManyCards ==
    [i \in 1..(GridCap + 1) |->
        [id |-> TenIds[i], type |-> "flashcard", front |-> i, correct |-> 0,
         topics |-> <<"A">>, stats |-> initStats, sr |-> initSR]]

\* The options a caller passes.  ids and limit: <<>> when not given; the
\* texts "": not given.
FilterOptions ==
    [ids : {<<>>, <<{"01", "03", "10", "zz"}>>}, type : {"", "flashcard", "mcq"},
     topic : {"", "A"}, search : {"", "MCQ"}, wrongOnly : BOOLEAN, dueOnly : BOOLEAN,
     shuffle : BOOLEAN, limit : {<<>>, <<0>>, <<2>>, <<GridCap + 1>>}]

FilterInit ==
    /\ now = StartMs
    /\ \E cards \in {ThreeCards, ManyCards} :
          storage = [deck |-> StoredDeckOf(cards), sessions |-> 0, viewmode |-> ""]
    /\ settings = [autoAdvanceOnCorrect |-> FALSE]
    /\ timers = 0
    /\ probe = NoProbe
    /\ Loaded(storage, now)

\* App.viewMode.set(mode)
SetViewMode(mode) ==
    /\ Commit([Here EXCEPT !.storage.viewmode = mode], session, view,
              Ran("setViewMode", FALSE))
    /\ UNCHANGED <<settings, timers, now>>

\* A page script calls App.filterDeck(opts) and keeps the list.
FilterDeck(opts) ==
    /\ probe.stage = "none"
    /\ opts.shuffle => Len(narrow(opts, deck, cardObj, progObj, now)) <= MaxShuffle
    /\ \E r \in filterDeck(opts, deck, cardObj, progObj, storage, now) :
          /\ deck' = [deck EXCEPT !.cards = r.cards]
          /\ probe' = [stage |-> "filtered", opts |-> opts, result |-> r.result]
    /\ last' = Ran("filterDeck", FALSE)
    /\ UNCHANGED <<cardObj, progObj, storage, session, view, settings, timers, now,
                   importing>>

\* The clock and the view mode move until the call is made.
FilterNext ==
    \/ probe.stage = "none" /\ Tick
    \/ probe.stage = "none" /\ \E mode \in {"single", "grid"} : SetViewMode(mode)
    \/ \E o \in FilterOptions : FilterDeck(o)

FilterSpec == FilterInit /\ [][FilterNext]_vars

---------------------------------------------------------------------------
(* The study session: every way to start one, and every control of the study
   page, over a deck of three cards *)

\* The controls read by buildWorkingSet: everything, and the wrong cards of
\* topic B (none, until one is missed).
SessionOptions ==
    { [allowMCQ |-> TRUE, allowFlash |-> TRUE, topics |-> {}, wrongOnly |-> FALSE,
       shuffle |-> FALSE, size |-> 20],
      [allowMCQ |-> TRUE, allowFlash |-> TRUE, topics |-> {"B"}, wrongOnly |-> TRUE,
       shuffle |-> FALSE, size |-> 20] }

\* The filters of the lists a page script passes to window.startSession: the
\* MCQs, and an id no card has.
SelectedOptions ==
    { [ids |-> <<>>, type |-> "mcq", topic |-> "", search |-> "", wrongOnly |-> FALSE,
       dueOnly |-> FALSE, shuffle |-> FALSE, limit |-> <<>>],
      [ids |-> <<{"zz"}>>, type |-> "", topic |-> "", search |-> "", wrongOnly |-> FALSE,
       dueOnly |-> FALSE, shuffle |-> FALSE, limit |-> <<>>] }

\* The opts of App.startSessionFromFilters: the daily plan with count 2, and
\* the wrong MCQs.
FiltersOptions ==
    { [plan |-> "daily", type |-> "", wrongOnly |-> TRUE, dueOnly |-> FALSE,
       shuffle |-> TRUE, count |-> 2],
      [plan |-> "", type |-> "mcq", wrongOnly |-> TRUE, dueOnly |-> FALSE,
       shuffle |-> FALSE, count |-> 0] }

SessionInit ==
    /\ now = StartMs
    /\ storage = [deck |-> StoredDeckOf(ThreeCards), sessions |-> 0, viewmode |-> ""]
    /\ settings = [autoAdvanceOnCorrect |-> FALSE]
    /\ timers = 0
    /\ probe = [stage |-> "session", size |-> 0, advances |-> 0, plain |-> FALSE,
                oldWrongs |-> <<>>, shared |-> FALSE]
    /\ Loaded(storage, now)

\* The three ways to start a session, and the controls that grade a card and
\* move through the pool
StudyHandlers ==
    \/ \E o \in SessionOptions : StartSession(o, TRUE)
    \/ \E o \in SelectedOptions : WindowStartSession(o, TRUE)
    \/ \E o \in FiltersOptions : StartSessionFromFilters(o, TRUE)
    \/ Got(TRUE)
    \/ Miss(TRUE)
    \/ \E l \in SeqToSet(Letters) : Choose(l, TRUE)
    \/ Repeat_later
    \/ Next_card
    \/ Prev_card
    \/ End_session
    \/ RedoWrongs

SessionNext ==
    \/ StudyHandlers
    \/ TimerFires
    \/ SetMode
    \/ \E val \in BOOLEAN : SetAutoAdvance(val)

SessionSpec == SessionInit /\ [][SessionNext]_vars

\* A session with an import and a reset of the statistics in between.
CounterNext ==
    \/ StudyHandlers
    \/ \E b \in GradeBatches : ImportFile(b, FALSE, TRUE, TRUE)
    \/ ResetStats(TRUE)

CounterSpec == SessionInit /\ [][CounterNext]_vars

---------------------------------------------------------------------------
(* Scheduler claims, under GradeSpec *)

\* The stats and sr objects of a card object.
ProgOf(a) == progObj[cardObj[a].prog]

Gradings == {"got", "miss", "choose", "markResult"}

\* The last handler graded a card: a session grading, or an App.markResult call
\* that found its card.
Graded == last.op \in Gradings /\ last.card # 0

\* C1: every card of the deck has stats.correct <= stats.seen, in every state
\* that gradings through a session and through App.markResult, merges, resets
\* and clears reach.
C1_CorrectAtMostSeen ==
    \A i \in 1..Len(deck.cards) :
        ProgOf(deck.cards[i]).stats.correct <= ProgOf(deck.cards[i]).stats.seen

\* C1 witness: card "a" was merged (it has the imported front) and graded right
\* once and wrong once, by a session or by App.markResult.
C1_Witness ==
    \E i \in 1..Len(deck.cards) :
        /\ cardObj[deck.cards[i]].id = "a"
        /\ cardObj[deck.cards[i]].front = 2
        /\ ProgOf(deck.cards[i]).stats.seen = 7
        /\ ProgOf(deck.cards[i]).stats.correct = 5

\* STEPS[min(streak, 3)], written out.
IntervalFor(streak) ==
    CASE streak = 0 -> 1
      [] streak = 1 -> 3
      [] streak = 2 -> 7
      [] OTHER -> 14

\* C2: after a grading the graded card's sr.intervalDays is 1, 3, 7, 14, 14 for
\* a streak, after the update, of 0, 1, 2, 3, 4 and more.
C2_IntervalFollowsStreak ==
    Graded => ProgOf(last.card).sr.intervalDays = IntervalFor(ProgOf(last.card).stats.streak)

\* C2 witness: a session grading took a streak beyond 3, and the interval is 14.
C2_Witness ==
    /\ last.op = "got"
    /\ ProgOf(last.card).stats.streak = 4
    /\ ProgOf(last.card).sr.intervalDays = 14

\* C3: after a grading at time t the graded card has sr.lastReviewed = t and
\* sr.nextDue = lastReviewed + intervalDays * 86,400,000, between 1 and 14 days
\* after t.
C3_NextDue ==
    Graded =>
        LET sr == ProgOf(last.card).sr
        IN /\ sr.lastReviewed = now
           /\ sr.nextDue = sr.lastReviewed + sr.intervalDays * 86400000
           /\ sr.nextDue >= now + 86400000
           /\ sr.nextDue <= now + 14 * 86400000

\* C3 witness: a session grading scheduled its card the full 14 days out.
C3_Witness ==
    /\ last.op \in {"got", "choose"}
    /\ ProgOf(last.card).sr.nextDue = now + 14 * 86400000

\* The stats, before a grading step, of the card the step grades: the card the
\* view is bound to, or for App.markResult the deck card with the id it was given.
StatsBefore ==
    IF last'.op = "markResult"
    THEN ProgOf(CHOOSE a \in SeqToSet(deck.cards) :
                    cardObj[a].id = cardObj'[last'.card].id).stats
    ELSE ProgOf(view.card).stats

\* C4: a grading that is wrong sets streak to 0 and intervalDays to 1, adds 1 to
\* seen and leaves correct; one that is right adds 1 to seen, correct and
\* streak.
C4_GradingUpdatesStats ==
    [][last'.op \in Gradings /\ last'.card # 0 =>
          LET pre == StatsBefore
              post == progObj'[cardObj'[last'.card].prog]
          IN IF last'.isCorrect
             THEN /\ post.stats.seen = pre.seen + 1
                  /\ post.stats.correct = pre.correct + 1
                  /\ post.stats.streak = pre.streak + 1
             ELSE /\ post.stats.seen = pre.seen + 1
                  /\ post.stats.correct = pre.correct
                  /\ post.stats.streak = 0
                  /\ post.sr.intervalDays = 1]_vars

\* C4 witness: card "a", stored with seen 5, correct 4 and streak 2, was graded
\* wrong in a session: seen 6, correct 4, streak 0, interval 1.
C4_Witness ==
    /\ last.op = "miss"
    /\ ProgOf(last.card).stats = [seen |-> 6, correct |-> 4, streak |-> 0,
                                  lastSeen |-> <<now>>]
    /\ ProgOf(last.card).sr.intervalDays = 1

---------------------------------------------------------------------------
(* Import and deck-store claims, under Spec *)

\* The content fields of a card object or of an incoming row.
Content(c) == [type |-> c.type, front |-> c.front, correct |-> c.correct,
               topics |-> c.topics]

BatchIds(batch) == {batch[k].id : k \in 1..Len(batch)}

\* The step is a merge: an import without replace, which calls upsertCards on
\* the deck as it is.
MergeStep == last'.op = "import" /\ ~last'.replace /\ last'.batch # <<>>

\* After the step the deck holds a card with the id and content of `row` and
\* with the stats and sr values `prog`.
MergedAs(row, prog) ==
    \E j \in 1..Len(deck'.cards) :
        /\ cardObj'[deck'.cards[j]].id = row.id
        /\ Content(cardObj'[deck'.cards[j]]) = Content(row)
        /\ progObj'[cardObj'[deck'.cards[j]].prog] = prog

\* C5 as stated: after a merge, for every incoming card whose id the deck held,
\* the deck card with that id has that incoming card's content and the stats
\* and sr values the deck card had before.
C5_EveryIncomingCardCarried ==
    [][MergeStep =>
          \A k \in 1..Len(last'.batch) : \A i \in 1..Len(deck.cards) :
              cardObj[deck.cards[i]].id = last'.batch[k].id
                  => MergedAs(last'.batch[k], ProgOf(deck.cards[i]))]_vars

\* C5 amended: after a merge, for every id of the batch that the deck held, the
\* deck card with that id has the content of the last incoming card with that
\* id and the stats and sr values the deck card had before.
C5_LastIncomingCardCarried ==
    [][MergeStep =>
          \A k \in 1..Len(last'.batch) : \A i \in 1..Len(deck.cards) :
              /\ cardObj[deck.cards[i]].id = last'.batch[k].id
              /\ \A k2 \in (k + 1)..Len(last'.batch) :
                    last'.batch[k2].id # last'.batch[k].id
              => MergedAs(last'.batch[k], ProgOf(deck.cards[i]))]_vars

\* C5 witness: a merge brought card "a" twice, first from a JSON file with front
\* 1 and stats of its own, then from a sheet with front 2; the deck card has the
\* second front and the five gradings the stored card had.
C5_Witness ==
    /\ last.op = "import" /\ ~last.replace
    /\ Len(last.batch) = 2
    /\ last.batch[1].id = "a" /\ last.batch[2].id = "a"
    /\ last.batch[1].front = 1 /\ last.batch[2].front = 2
    /\ \E i \in 1..Len(deck.cards) :
          /\ cardObj[deck.cards[i]].id = "a"
          /\ cardObj[deck.cards[i]].front = 2
          /\ ProgOf(deck.cards[i]).stats.seen = 5

\* C6: a merge keeps every id the deck held, and a card whose id is not in the
\* batch keeps its content, topics, stats and sr.
C6_MergeNeverDeletes ==
    [][MergeStep =>
          \A i \in 1..Len(deck.cards) :
              \E j \in 1..Len(deck'.cards) :
                  /\ cardObj'[deck'.cards[j]].id = cardObj[deck.cards[i]].id
                  /\ cardObj[deck.cards[i]].id \notin BatchIds(last'.batch)
                        => /\ Content(cardObj'[deck'.cards[j]])
                                 = Content(cardObj[deck.cards[i]])
                           /\ progObj'[cardObj'[deck'.cards[j]].prog]
                                 = ProgOf(deck.cards[i])]_vars

\* C6 witness: a merge of card "7" alone left card "a" in the deck with its
\* stored front and its five gradings.
C6_Witness ==
    /\ last.op = "import" /\ ~last.replace
    /\ BatchIds(last.batch) = {"7"}
    /\ Len(deck.cards) = 2
    /\ \E i \in 1..Len(deck.cards) :
          /\ cardObj[deck.cards[i]].id = "a"
          /\ cardObj[deck.cards[i]].front = 1
          /\ ProgOf(deck.cards[i]).stats.seen = 5

\* C7: no two cards of deck.cards have the same id.
C7_UniqueIds ==
    \A i, j \in 1..Len(deck.cards) :
        cardObj[deck.cards[i]].id = cardObj[deck.cards[j]].id => i = j

\* C7 witness: an import whose batch repeats an id the deck already held left a
\* deck of two cards.
C7_Witness ==
    /\ last.op = "import" /\ ~last.replace
    /\ Len(last.batch) = 2
    /\ last.batch[1].id = last.batch[2].id
    /\ Len(deck.cards) = 2
    /\ \E i \in 1..Len(deck.cards) : cardObj[deck.cards[i]].id = last.batch[1].id

\* The index derived from deck.cards: for each topic some card has, the ids of
\* the cards whose topics contain it, each once, in deck order.
DerivedIndex ==
    [t \in TopicsOf(deck.cards, cardObj) |->
        LET having == SelectSeq(deck.cards, LAMBDA a : t \in SeqToSet(cardObj[a].topics))
        IN [i \in 1..Len(having) |-> cardObj[having[i]].id]]

\* C8 as stated: deck.topicIndex is the derived index, and no key maps to an
\* empty list.
C8_TopicIndexDerived ==
    /\ deck.topicIndex = DerivedIndex
    /\ \A t \in DOMAIN deck.topicIndex : deck.topicIndex[t] # <<>>

---------------------------------------------------------------------------
(* Load and write-failure claims *)

\* C9 as stated: neither loadDeck nor App.getDeck throws; a page load leaves a
\* deck with a cards list and the topic index rebuilt from it, and an empty deck
\* when the record is absent, unparseable or corrupt.
C9_LoadYieldsUsableDeck ==
    /\ last.op \in {"load", "getDeck"} => ~last.threw
    /\ last.op = "load" =>
          /\ deck.hasCards
          /\ deck.topicIndex = buildTopicIndex(deck.cards, cardObj)
          /\ storage.deck.kind # "deck" => deck.cards = <<>>

\* C10 as stated: no handler lets an error out when its write fails, and a
\* session grading still does its bookkeeping: Got it adds 1 to session.correct,
\* Missed adds the card to session.wrongs and to the pool, and both advance.
C10_WriteFailureSwallowed ==
    [][/\ ~last'.threw
       /\ last'.op = "got" =>
             /\ session'.correct = session.correct + 1
             /\ session'.idx = session.idx + 1
       /\ last'.op = "miss" =>
             /\ Len(session'.wrongs) = Len(session.wrongs) + 1
             /\ Len(session'.pool) = Len(session.pool) + 1
             /\ session'.idx = session.idx + 1]_vars

---------------------------------------------------------------------------
(* Card model claims, under HydrateSpec *)

\* The object hydrateCard works on: {} for null
RawObject == IF probe.raw = <<>> THEN EmptyObject ELSE probe.raw[1]

\* C11: hydrating a hydrated card changes no field of it, whatever the input
\* was: the id the first hydration assigned is kept, and so are stats and sr.
C11_HydrateIdempotent ==
    probe.stage = "rehydrated" => probe.twice = probe.once

\* A card without id and type, with stats of its own and a legacy answer, has
\* been hydrated twice.
C11_Witness ==
    /\ probe.stage = "rehydrated"
    /\ probe.raw # <<>>
    /\ Falsy(RawObject.id) /\ Falsy(RawObject.type)
    /\ RawObject.stats # <<>> /\ RawObject.stats[1].seen = Num(2)
    /\ RawObject.sr = <<>> /\ RawObject.topics = <<>>
    /\ RawObject.correct = undefined /\ RawObject.answer = Str(<<"B">>)
    /\ probe.twice.id \in {Str(u) : u \in Uids}
    /\ probe.twice.stats[1].seen = Num(2)

\* The index the legacy answer letter stands for: its place in A, B, C, D
\* once trimmed and upper-cased, 0 when it is none of them.
IndexOfAnswer(answer) == Num(LetterIndex(toUpperCase(trim(answer.s))))

Hydrated == probe.stage \in {"hydrated", "rehydrated", "graded"}

\* C12 as stated: a card with no numeric correct (undefined, or null) and a
\* legacy letter answer gets correct from the letter; a numeric correct is kept.
C12_NonNumericCorrectDerived ==
    Hydrated =>
        /\ RawObject.correct.kind # "number" /\ RawObject.answer.kind = "string"
              => probe.once.correct = IndexOfAnswer(RawObject.answer)
        /\ RawObject.correct.kind = "number"
              => probe.once.correct = RawObject.correct

\* C12: a card whose correct is absent (undefined) and whose answer is a
\* string gets correct from the letter map, after trimming and upper-casing,
\* 0 for any other text; a correct that is present, a number or null, is
\* left as it is, and so is an absent correct without a string answer.
C12_AbsentCorrectDerived ==
    Hydrated =>
        /\ RawObject.correct = undefined /\ RawObject.answer.kind = "string"
              => probe.once.correct = IndexOfAnswer(RawObject.answer)
        /\ RawObject.correct # undefined \/ RawObject.answer.kind # "string"
              => probe.once.correct = RawObject.correct

\* The answer ' c ' of a card without correct has become index 2, and an MCQ
\* grading of the letter C has counted as right.
C12_Witness ==
    /\ probe.stage = "graded"
    /\ RawObject.correct = undefined
    /\ RawObject.answer = Str(<<" ", "c", " ">>)
    /\ probe.once.correct = Num(2)
    /\ probe.letter = "C" /\ probe.isCorrect

IsNumber(v) == v.kind = "number"

NumericProgress(c) ==
    /\ c.stats # <<>>
    /\ IsNumber(c.stats[1].seen) /\ IsNumber(c.stats[1].correct)
    /\ IsNumber(c.stats[1].streak)
    /\ c.stats[1].lastSeen # undefined
    /\ c.sr # <<>>
    /\ IsNumber(c.sr[1].intervalDays) /\ IsNumber(c.sr[1].nextDue)
    /\ IsNumber(c.sr[1].lastReviewed)

\* C13: whatever the input, a stats or sr object that lacks fields included,
\* the hydrated card has an id, a type, a topics list, and numeric stats and
\* sr fields, and its stats and sr are still numeric after a grading.
C13_FullyPopulated ==
    /\ Hydrated =>
          /\ probe.once.id.kind = "string" /\ probe.once.id.s # <<>>
          /\ probe.once.type.kind = "string"
          /\ probe.once.topics # <<>>
          /\ NumericProgress(probe.once)
    /\ probe.stage = "graded" => NumericProgress(probe.after)

---------------------------------------------------------------------------
(* Filter engine claims, under FilterSpec *)

Filtered == probe.stage = "filtered"

\* The card object a passes every criterion the options supply.
Satisfies(a, opts) ==
    /\ opts.ids # <<>> => cardObj[a].id \in opts.ids[1]
    /\ opts.type # "" => cardObj[a].type = opts.type
    /\ opts.topic # "" => opts.topic \in SeqToSet(cardObj[a].topics)
    /\ opts.search # "" => hayHas(cardObj[a], opts.search)
    /\ opts.wrongOnly => ProgOf(a).stats.correct < ProgOf(a).stats.seen
    /\ opts.dueOnly => ProgOf(a).sr.nextDue <= now

Matching(opts) == {a \in SeqToSet(deck.cards) : Satisfies(a, opts)}

\* C14: without a limit, filterDeck returns exactly the deck cards that pass
\* every supplied criterion, each once and none left out (the empty list when
\* there is none), in deck order when shuffle is off.
C14_ExactlyTheMatchingCards ==
    Filtered /\ probe.opts.limit = <<>> =>
        /\ SeqToSet(probe.result) = Matching(probe.opts)
        /\ Len(probe.result) = Cardinality(Matching(probe.opts))
        /\ ~probe.opts.shuffle =>
              probe.result = SelectSeq(deck.cards, LAMBDA a : Satisfies(a, probe.opts))

\* C15: shuffle and limit act on the narrowed set: every card returned passes
\* every criterion and is returned once; with shuffle and no limit the result
\* holds exactly the matching cards; with limit N it holds min(N, number of
\* matching cards) of them.
C15_ShuffleAndLimitAfterNarrowing ==
    Filtered =>
        /\ SeqToSet(probe.result) \subseteq Matching(probe.opts)
        /\ Len(probe.result) = Cardinality(SeqToSet(probe.result))
        /\ probe.opts.shuffle /\ probe.opts.limit = <<>> =>
              SeqToSet(probe.result) = Matching(probe.opts)
        /\ probe.opts.limit # <<>> =>
              Len(probe.result) =
                  Min2(probe.opts.limit[1], Cardinality(Matching(probe.opts)))

\* C16: a call of filterDeck, with any options, leaves deck.cards (order and
\* membership), every card's fields, stats and sr, the topic index and
\* localStorage as they were, and returns card objects of the deck.
C16_FilterNeverMutates ==
    [][last'.op = "filterDeck" =>
          /\ deck' = deck
          /\ cardObj' = cardObj
          /\ progObj' = progObj
          /\ storage' = storage
          /\ SeqToSet(probe'.result) \subseteq SeqToSet(deck.cards)]_vars

\* The three-card deck was filtered with shuffle and limit 2; the list
\* returned starts with the deck's last card, and the deck is in its order.
C16_Witness ==
    /\ Filtered
    /\ probe.opts.shuffle /\ probe.opts.limit = <<2>>
    /\ Len(deck.cards) = 3 /\ Len(probe.result) = 2
    /\ probe.result[1] = deck.cards[3]
    /\ [i \in 1..3 |-> cardObj[deck.cards[i]].id] = <<"01", "02", "03">>

---------------------------------------------------------------------------
(* Session engine claims, under SessionSpec and CounterSpec *)

Starts == {"start", "startWindow", "startFilters"}

EmptyStarts == {"startEmpty", "startWindowEmpty", "startFiltersEmpty"}

\* C17: a start with an empty pool, through startSession, window.startSession
\* or App.startSessionFromFilters, changes nothing: the session (pool, idx,
\* correct, wrongs), what the page shows, the session counter and the rest of
\* localStorage, and the deck with its cards are as before.
C17_EmptyStartChangesNothing ==
    [][last'.op \in EmptyStarts =>
          /\ session' = session
          /\ view' = view
          /\ storage' = storage
          /\ deck' = deck
          /\ Snapshot(deck', cardObj', progObj') = Snapshot(deck, cardObj, progObj)
          /\ PoolIds(session'.pool, cardObj') = PoolIds(session.pool, cardObj)]_vars

\* window.startSession was called with an empty list while a session was on
\* its second card with a miss recorded.
C17_Witness ==
    /\ last.op = "startWindowEmpty"
    /\ session.idx = 1 /\ Len(session.pool) > 1
    /\ session.wrongs # <<>>
    /\ storage.sessions = 1

\* C18: a start with a non-empty pool sets the session to that pool with idx
\* 0, correct 0 and no wrongs, whatever the session was before.
C18_StartSetsFreshSession ==
    [][last'.op \in Starts /\ ~last'.threw =>
          /\ session'.pool # <<>>
          /\ PoolIds(session'.pool, cardObj') = last'.batch
          /\ session'.idx = 0
          /\ session'.correct = 0
          /\ session'.wrongs = <<>>]_vars

\* The second session has just been started, on the three cards of the deck.
C18_Witness ==
    /\ last.op \in Starts
    /\ storage.sessions = 2
    /\ last.batch = <<"01", "02", "03">>
    /\ session = [pool |-> deck.cards, idx |-> 0, correct |-> 0, wrongs |-> <<>>]

\* C19: the session counter goes up by exactly 1 with each start that begins
\* a session, and no other handler changes it: a start with an empty pool, a
\* grading, next, prev, end, repeat later, redo wrongs, an import, a reset.
C19_CounterCountsStarts ==
    [][/\ last'.op \in Starts => storage'.sessions = storage.sessions + 1
       /\ last'.op \notin Starts => storage'.sessions = storage.sessions]_vars

\* The wrongs of the first session are being redone, and the counter is 1.
C19_Witness ==
    /\ last.op = "redoWrongs"
    /\ session.pool # <<>>
    /\ storage.sessions = 1

\* C20: an advance adds 1 to idx while idx < pool.length - 1 and sets idx to
\* pool.length otherwise; idx is always between 0 and pool.length; a card is
\* shown exactly when idx < pool.length and the summary otherwise; and a
\* session started on n cards and only advanced since has idx equal to the
\* number of advances, n after n of them.
C20_AdvanceReachesSentinel ==
    /\ [](/\ 0 <= session.idx /\ session.idx <= Len(session.pool)
          /\ view.kind = "card" <=> session.idx < Len(session.pool)
          /\ view.kind = "summary" <=> session.idx = Len(session.pool)
          /\ probe.plain =>
                /\ Len(session.pool) = probe.size
                /\ session.idx = probe.advances)
    /\ [][last'.op \in {"next", "timer"} =>
             /\ session'.idx = IF session.idx < Len(session.pool) - 1
                               THEN session.idx + 1
                               ELSE Len(session.pool)
             /\ Len(session'.pool) = Len(session.pool)]_vars

\* A session started on three cards has been advanced three times: idx is 3
\* and the summary is shown.
C20_Witness ==
    /\ probe.plain /\ probe.size = 3 /\ probe.advances = 3
    /\ Len(session.pool) = 3 /\ session.idx = 3
    /\ view.kind = "summary"

\* C21: a requeue of the card shown makes the pool one longer with the card
\* at its end, every earlier position, idx, correct and wrongs as they were,
\* so the card at idx is the same; the Repeat-later and Missed handlers leave
\* that pool, with idx moved on by their nextCard().
C21_RequeueAppends ==
    /\ [](view.kind = "card" =>
            LET r == enqueueForRepeat(session, view.card)
                n == Len(session.pool)
            IN /\ Len(r.pool) = n + 1
               /\ r.pool[n + 1] = view.card
               /\ \A i \in 1..n : r.pool[i] = session.pool[i]
               /\ r.idx = session.idx
               /\ r.correct = session.correct
               /\ r.wrongs = session.wrongs
               /\ r.pool[r.idx + 1] = session.pool[session.idx + 1])
    /\ [][last'.op \in {"repeat", "miss"} =>
             /\ PoolIds(session'.pool, cardObj')
                   = Append(PoolIds(session.pool, cardObj), cardObj[view.card].id)
             /\ session'.idx = session.idx + 1
             /\ last'.op = "repeat" =>
                   /\ session'.correct = session.correct
                   /\ PoolIds(session'.wrongs, cardObj')
                         = PoolIds(session.wrongs, cardObj)]_vars

\* The first card of a two-card session was put back for later: it is now
\* also the third, and the second card is shown.
C21_Witness ==
    /\ last.op = "repeat"
    /\ PoolIds(session.pool, cardObj) = <<"01", "02", "01">>
    /\ session.idx = 1
    /\ view.kind = "card" /\ cardObj[view.card].id = "02"

\* The last handler was a grading control of the study page.
SessionGradings == {"got", "miss", "choose"}

\* C22: a grading in a session (Got it, Missed, or an MCQ choice) updates the
\* statistics and the schedule of the card shown once (seen goes up by 1, the
\* review time is the time of the click) and those of no other card, adds 1 to
\* session.correct iff the answer was right, and appends the card to
\* session.wrongs iff it was wrong.
C22_GradingCountsOnce ==
    [][last'.op \in SessionGradings =>
          LET pre == ProgOf(view.card)
              post == progObj'[cardObj'[last'.card].prog]
              right == last'.isCorrect
          IN /\ last'.op = "got" => right
             /\ last'.op = "miss" => ~right
             /\ cardObj'[last'.card].id = cardObj[view.card].id
             /\ post.stats.seen = pre.stats.seen + 1
             /\ post.stats.correct = pre.stats.correct + (IF right THEN 1 ELSE 0)
             /\ post.stats.lastSeen = <<now'>>
             /\ post.sr.lastReviewed = now'
             /\ Len(deck'.cards) = Len(deck.cards)
             /\ \A i \in 1..Len(deck.cards) :
                   cardObj[deck.cards[i]].prog # cardObj[view.card].prog
                      => progObj'[cardObj'[deck'.cards[i]].prog] = ProgOf(deck.cards[i])
             /\ session'.correct = session.correct + (IF right THEN 1 ELSE 0)
             /\ PoolIds(session'.wrongs, cardObj')
                   = IF right THEN PoolIds(session.wrongs, cardObj)
                     ELSE Append(PoolIds(session.wrongs, cardObj),
                                 cardObj[view.card].id)]_vars

\* Flashcard 01 was got, then a wrong choice was clicked on MCQ 02: one right
\* answer counted, 02 alone in wrongs, 02 seen once and never right.
C22_Witness ==
    /\ last.op = "choose" /\ ~last.isCorrect
    /\ session.correct = 1
    /\ PoolIds(session.wrongs, cardObj) = <<"02">>
    /\ cardObj[last.card].id = "02"
    /\ ProgOf(last.card).stats.seen = 1
    /\ ProgOf(last.card).stats.correct = 0

C24_RedoStartsOnCopyOfWrongs ==
    /\ [](view.kind = "summary" /\ view.redo =>
             /\ session.idx = Len(session.pool)
             /\ session.wrongs # <<>>)
    /\ [][last'.op = "redoWrongs" =>
             /\ session.idx = Len(session.pool)
             /\ session.wrongs # <<>>
             /\ PoolIds(session'.pool, cardObj') = PoolIds(session.wrongs, cardObj)
             /\ \A i \in 1..Len(session.wrongs) :
                   cardObj'[session'.pool[i]] = cardObj[session.wrongs[i]]
             /\ session'.idx = 0
             /\ session'.correct = 0
             /\ session'.wrongs = <<>>
             /\ probe'.oldWrongs = PoolIds(session.wrongs, cardObj)]_vars
    /\ [][last'.op \in {"repeat", "miss"} => probe'.oldWrongs = probe.oldWrongs]_vars

\* Card 01 was missed, the session ended and its wrong cards redone, and 01
\* put back for later in the new session: the pool holds it twice, the old
\* list of wrong cards once.
C24_Witness ==
    /\ last.op = "repeat"
    /\ probe.oldWrongs = <<"01">>
    /\ PoolIds(session.pool, cardObj) = <<"01", "01">>
    /\ session.correct = 0

\* C25: a complete session (idx = pool.length) keeps its idx and its pool
\* across every step that is not a redo of the wrong cards or a start on a
\* non-empty pool.
C25_CompleteUntilRedoOrStart ==
    [][/\ session.idx = Len(session.pool)
       /\ last'.op \notin Starts \cup {"redoWrongs"}
       => /\ session'.idx = session.idx
          /\ PoolIds(session'.pool, cardObj') = PoolIds(session.pool, cardObj)]_vars

---------------------------------------------------------------------------
(* Import of several files: the change handler of the file input and the
   onload callbacks of its FileReaders, which fire in any order *)

\* The files a user may select: a JSON deck with a new card, a workbook with
\* that id again and a row for stored card "a", a JSON file that does not
\* parse, and a text file.  cards is what the parser gives when it succeeds.
ImportFiles ==
    { [ext |-> "json", throws |-> FALSE,
       cards |-> << [id |-> "zz", type |-> "flashcard", front |-> 1, correct |-> 0,
                     topics |-> <<"A">>, prog |-> <<>>] >>],
      [ext |-> "xlsx", throws |-> FALSE,
       cards |-> << [id |-> "zz", type |-> "flashcard", front |-> 2, correct |-> 0,
                     topics |-> <<"B">>, prog |-> <<>>],
                    [id |-> "a", type |-> "flashcard", front |-> 2, correct |-> 0,
                     topics |-> <<"B">>, prog |-> <<>>] >>],
      [ext |-> "json", throws |-> TRUE, cards |-> <<>>],
      [ext |-> "txt", throws |-> FALSE, cards |-> <<>>] }

\* A file that does not parse empties what the batch has collected
collect_failureEmptiesBatch(collected, f) ==
    IF f.throws THEN <<>> ELSE collected \o f.cards

\* r.onload: try { collected = collected.concat(parsed cards) } catch { log }
collect(collected, f) ==
    IF f.throws THEN collected ELSE collected \o f.cards

\* change on the file input: pending = files.length, a FileReader per .xlsx
\* and .json file, doneOne() at once for any other file.
ChooseFiles(files, replace) ==
    /\ importing.unread = {}
    /\ importing.batches < MaxImports
    /\ LET readers == {i \in 1..Len(files) : files[i].ext \in {"xlsx", "json"}}
           pending == Len(files) - Cardinality((1..Len(files)) \ readers)
       IN CommitWith(Here, session, view, Ran("chooseFiles", FALSE),
                     [pending |-> pending, collected |-> <<>>, replace |-> replace,
                      files |-> files, unread |-> readers,
                      batches |-> importing.batches + 1])
    /\ UNCHANGED <<settings, timers, now>>

\* The FileReader of file i fires onload: the parse, then doneOne().
FileLoaded(i, ok1, ok2) ==
    /\ i \in importing.unread
    /\ LET collected == collect(importing.collected, importing.files[i])
           pending == importing.pending - 1
           m == doneOne(Here, pending, collected, importing.replace, now, ok1, ok2)
           merged == pending = 0 /\ collected # <<>>
       IN CommitWith(m, session, view,
                     Last("fileLoaded", 0, FALSE, m.threw,
                          IF merged THEN collected ELSE <<>>, importing.replace),
                     [importing EXCEPT !.pending = pending,
                                       !.collected = collected,
                                       !.unread = @ \ {i}])
    /\ UNCHANGED <<settings, timers, now>>

ImportNext ==
    \/ \E files \in UNION {[1..n -> ImportFiles] : n \in 1..MaxFiles},
          replace \in BOOLEAN : ChooseFiles(files, replace)
    \/ \E i \in 1..MaxFiles : FileLoaded(i, TRUE, TRUE)

ImportSpec == Init /\ [][ImportNext]_vars

---------------------------------------------------------------------------
(* Import claims, under ImportSpec *)

RECURSIVE Contributions(_, _)
\* The cards of the files at the positions `order`, file after file; a file
\* that is not read or does not parse gives none.
Contributions(files, order) ==
    IF order = <<>> THEN <<>>
    ELSE (IF files[Head(order)].ext \in {"xlsx", "json"} /\ ~files[Head(order)].throws
          THEN files[Head(order)].cards ELSE <<>>)
            \o Contributions(files, Tail(order))

DeckIds == {cardObj[deck.cards[i]].id : i \in 1..Len(deck.cards)}

\* C26: while files of a batch are still being read, a completed file leaves
\* the deck and its stored record as they were; the completion of the last
\* file hands upsertCards the cards of all files, in the order the files
\* completed, in one merge: the deck then holds every id of the batch, its
\* topic index is that of its cards and the stored record is that deck.
C26_MergeOnceWhenAllFilesRead ==
    [][/\ last'.op = "chooseFiles" =>
             /\ Snapshot(deck', cardObj', progObj') = Snapshot(deck, cardObj, progObj)
             /\ storage' = storage
       /\ last'.op = "fileLoaded" =>
             IF importing.pending > 1
             THEN /\ Snapshot(deck', cardObj', progObj') = Snapshot(deck, cardObj, progObj)
                  /\ storage' = storage
                  /\ last'.batch = <<>>
                  /\ importing'.pending = importing.pending - 1
             ELSE /\ importing'.pending = 0
                  /\ \E order \in Perms([i \in 1..Len(importing.files) |-> i]) :
                        last'.batch = Contributions(importing.files, order)
                  /\ IF last'.batch = <<>>
                     THEN /\ Snapshot(deck', cardObj', progObj')
                                = Snapshot(deck, cardObj, progObj)
                          /\ storage' = storage
                     ELSE /\ DeckIds' = (IF importing.replace THEN {} ELSE DeckIds)
                                           \cup {last'.batch[i].id : i \in 1..Len(last'.batch)}
                          /\ deck'.topicIndex = buildTopicIndex(deck'.cards, cardObj')
                          /\ deck'.updatedAt = now
                          /\ storage'.deck = Snapshot(deck', cardObj', progObj')]_vars

\* The JSON deck and the workbook were read, the workbook last: one merge of
\* their three cards took place, and the deck holds "zz" as the workbook has
\* it next to the stored cards.
C26_Witness ==
    /\ last.op = "fileLoaded"
    /\ Len(last.batch) = 3
    /\ last.batch[1].front = 1 /\ last.batch[2].front = 2
    /\ ~last.replace
    /\ DeckIds = {"7", "a", "zz"}
    /\ \E i \in 1..Len(deck.cards) :
          cardObj[deck.cards[i]].id = "zz" /\ cardObj[deck.cards[i]].front = 2

\* C27: a file of another type than .xlsx or .json is counted off when the
\* files are selected, and a file that does not parse when it has been read:
\* neither adds a card to what the batch has collected. pending is always the
\* number of files still being read, so it is 0 once every file is handled,
\* and the cards of the files that did parse are then merged into the deck.
C27_FailedFileGivesNoCards ==
    /\ [](importing.pending = Cardinality(importing.unread))
    /\ [][/\ last'.op = "chooseFiles" =>
                importing'.pending
                   = Cardinality({i \in 1..Len(importing'.files) :
                                     importing'.files[i].ext \in {"xlsx", "json"}})
          /\ last'.op = "fileLoaded" =>
                LET i == CHOOSE i \in importing.unread : i \notin importing'.unread
                    f == importing.files[i]
                    all == Contributions(importing.files,
                                         [j \in 1..Len(importing.files) |-> j])
                IN /\ f.throws => importing'.collected = importing.collected
                   /\ ~f.throws => importing'.collected = importing.collected \o f.cards
                   /\ importing'.unread = {} =>
                         /\ importing'.pending = 0
                         /\ Len(last'.batch) = Len(all)
                         /\ \A k \in 1..Len(all) :
                               /\ all[k] \in SeqToSet(last'.batch)
                               /\ all[k].id \in DeckIds']_vars

\* A JSON file that does not parse and a workbook were selected and both
\* were read: the batch is complete, and the two rows of the workbook were
\* merged.
C27_Witness ==
    /\ last.op = "fileLoaded"
    /\ Len(importing.files) = 2
    /\ importing.files[1].throws
    /\ importing.files[2].ext = "xlsx"
    /\ importing.pending = 0 /\ importing.unread = {}
    /\ Len(last.batch) = 2
    /\ {"zz", "a"} \subseteq DeckIds

---------------------------------------------------------------------------
(* Export and re-import: the deck is downloaded as JSON, the deck store is
   used, and the document is imported again with Replace checked *)

\* What the JSON branch of the import collects from an exported document:
\* d.cards.map(hydrateCard) when d.cards is there, each card with the stats
\* and sr the document gives it.
importedCards(doc) ==
    IF ~doc.hasCards THEN <<>>
    ELSE [i \in 1..Len(doc.cards) |->
             [id |-> doc.cards[i].id, type |-> doc.cards[i].type,
              front |-> doc.cards[i].front, correct |-> doc.cards[i].correct,
              topics |-> doc.cards[i].topics,
              prog |-> << [stats |-> doc.cards[i].stats, sr |-> doc.cards[i].sr] >>]]

\* btn-export: downloadJSON(deck, ...), i.e. JSON.stringify(deck); the
\* observer keeps the document.
ExportJSON ==
    /\ probe.stage = "none"
    /\ probe' = [stage |-> "exported", doc |-> Snapshot(deck, cardObj, progObj)]
    /\ last' = Ran("exportJSON", FALSE)
    /\ UNCHANGED <<deck, cardObj, progObj, storage, session, view, settings, timers,
                   now, importing>>

\* The exported document is chosen in the file input, Replace checked.
ReImport ==
    /\ probe.stage = "exported"
    /\ ImportFile(importedCards(probe.doc), TRUE, TRUE, TRUE)

ExportNext ==
    \/ ExportJSON
    \/ ReImport
    \/ Tick
    \/ \E id \in CardIds, w \in BOOLEAN : MarkResult(id, w, TRUE)
    \/ \E b \in GradeBatches : ImportFile(b, FALSE, TRUE, TRUE)
    \/ ResetStats(TRUE)
    \/ ClearDeck(TRUE)

ExportSpec == Init /\ [][ExportNext]_vars

\* The last handler imported the exported document in replace mode.
Reimported ==
    /\ probe.stage = "exported"
    /\ last.op = "import" /\ last.replace
    /\ last.batch = importedCards(probe.doc)

\* C28: after the exported document has been imported again in replace mode,
\* the deck has the version and createdAt of the document and exactly its
\* cards: the same ids, each with the type, content, topics, stats and sr of
\* the document.
C28_ReimportRestoresExportedDeck ==
    Reimported =>
       LET d == Snapshot(deck, cardObj, progObj)
       IN /\ d.version = probe.doc.version
          /\ d.createdAt = probe.doc.createdAt
          /\ SeqToSet(d.cards) = SeqToSet(probe.doc.cards)
          /\ Len(d.cards) = Len(probe.doc.cards)

---------------------------------------------------------------------------
(* The life of a card: the deck-store handlers and the study handlers in one
   run, over the stored two-card deck *)

LifeNext ==
    \/ \E id \in CardIds, w \in BOOLEAN : MarkResult(id, w, TRUE)
    \/ \E b \in GradeBatches, r \in BOOLEAN : ImportFile(b, r, TRUE, TRUE)
    \/ ResetStats(TRUE)
    \/ ClearDeck(TRUE)
    \/ StartSession(CHOOSE o \in GradeOptions : ~o.shuffle, TRUE)
    \/ \E o \in FiltersOptions : StartSessionFromFilters(o, TRUE)
    \/ Got(TRUE)
    \/ Miss(TRUE)
    \/ \E l \in SeqToSet(Letters) : Choose(l, TRUE)
    \/ Next_card
    \/ Repeat_later
    \/ RedoWrongs

LifeSpec == Init /\ [][LifeNext]_vars

\* C29: every step that is neither a clear nor an import in replace mode
\* leaves every id of the deck in the deck.
C29_OnlyClearAndReplaceDropCards ==
    [][\/ last'.op = "clear"
       \/ last'.op = "import" /\ last'.replace
       \/ DeckIds \subseteq DeckIds']_vars

\* Card "a" was replaced in content by a merge import and missed in a
\* session, the wrong cards were redone: both stored ids are in the deck.
C29_Witness ==
    /\ last.op = "redoWrongs"
    /\ DeckIds = {"7", "a"}
    /\ \E i \in 1..Len(deck.cards) :
          /\ cardObj[deck.cards[i]].id = "a"
          /\ cardObj[deck.cards[i]].front = 2
          /\ ProgOf(deck.cards[i]).stats.seen = 6

\* The filter that asks for wrongOnly and nothing else.
WrongOnlyFilter ==
    [ids |-> <<>>, type |-> "", topic |-> "", search |-> "", wrongOnly |-> TRUE,
     dueOnly |-> FALSE, shuffle |-> FALSE, limit |-> <<>>]

\* C30: a deck card passes the wrongOnly filter after a step iff it passed it
\* before the step or the step graded it wrong (it, or a card object that
\* shares its statistics); so a miss puts it in, later right answers do not
\* take it out, and a card that was not in stays out until it is missed. A
\* merge import keeps the standing of every id the deck had, a reset of the
\* statistics takes every card out.
C30_WrongOnlyMeansEverMissed ==
    [][LET wrongBefore == SeqToSet(narrow(WrongOnlyFilter, deck, cardObj, progObj, now))
           wrongAfter == SeqToSet(narrow(WrongOnlyFilter, deck', cardObj', progObj', now'))
           missed(a) == /\ last'.op \in Gradings /\ last'.card # 0
                        /\ ~last'.isCorrect
                        /\ cardObj'[last'.card].prog = cardObj'[a].prog
       IN /\ last'.op \notin {"import", "reset", "clear"} =>
                /\ Len(deck'.cards) = Len(deck.cards)
                /\ \A i \in 1..Len(deck.cards) :
                      deck'.cards[i] \in wrongAfter
                         <=> (deck.cards[i] \in wrongBefore \/ missed(deck'.cards[i]))
          /\ last'.op = "import" /\ ~last'.replace =>
                \A i \in 1..Len(deck.cards), j \in 1..Len(deck'.cards) :
                   cardObj[deck.cards[i]].id = cardObj'[deck'.cards[j]].id
                      => (deck'.cards[j] \in wrongAfter <=> deck.cards[i] \in wrongBefore)
          /\ last'.op = "reset" => wrongAfter = {}]_vars

\* MCQ "7", never graded before, was answered wrong and then right: seen 2,
\* correct 1, and the wrongOnly filter selects it.
C30_Witness ==
    /\ last.op \in Gradings /\ last.isCorrect
    /\ last.card \in SeqToSet(narrow(WrongOnlyFilter, deck, cardObj, progObj, now))
    /\ cardObj[last.card].id = "7"
    /\ ProgOf(last.card).stats.seen = 2
    /\ ProgOf(last.card).stats.correct = 1
    /\ ProgOf(last.card).stats.streak = 1

---------------------------------------------------------------------------
(* Claims on the deck store and the session together, under LifeSpec *)

\* C31: after every grading made in a session, each card of the in-memory
\* deck that has the id of the graded card has the statistics and the
\* schedule the grading produced, and the durable record is that deck.
C31_SessionGradingReachesDeck ==
    [][last'.op \in SessionGradings =>
          /\ \A i \in 1..Len(deck'.cards) :
                cardObj'[deck'.cards[i]].id = cardObj'[last'.card].id
                   => progObj'[cardObj'[deck'.cards[i]].prog]
                         = progObj'[cardObj'[last'.card].prog]
          /\ storage'.deck = Snapshot(deck', cardObj', progObj')]_vars

\* C32: a delayed advance moves idx only in the session whose correct grading
\* scheduled it: when a timer step moves idx, the session has counted a
\* correct answer, and the step moves idx by one.
C32_TimerAdvancesItsOwnSession ==
    [][last'.op = "timer" /\ session'.idx # session.idx =>
          /\ session.correct > 0
          /\ session'.idx = session.idx + 1]_vars

\* C33: in every state the right answers counted and the wrong cards listed
\* are together no more than the cards of the pool.
C33_GradedAtMostPool ==
    session.correct + Len(session.wrongs) <= Len(session.pool)

---------------------------------------------------------------------------
(* Gradings while the files of an import batch are being read *)

\* One batch of files is selected in the run. A session may be started and
\* moved at any time; cards are graded, in the session or through
\* App.markResult, only while a FileReader is outstanding.
ReadingNext ==
    \/ /\ importing.batches = 0
       /\ \E files \in UNION {[1..n -> ImportFiles] : n \in 1..MaxFiles},
             replace \in BOOLEAN : ChooseFiles(files, replace)
    \/ \E i \in 1..MaxFiles : FileLoaded(i, TRUE, TRUE)
    \/ StartSession(CHOOSE o \in GradeOptions : ~o.shuffle, TRUE)
    \/ Next_card
    \/ /\ importing.unread # {}
       /\ \/ \E id \in CardIds, w \in BOOLEAN : MarkResult(id, w, TRUE)
          \/ Got(TRUE)
          \/ Miss(TRUE)
          \/ \E l \in SeqToSet(Letters) : Choose(l, TRUE)

ReadingSpec == Init /\ [][ReadingNext]_vars

\* C34: when the last file of a batch completes and the batch is merged
\* without replace, every card id the deck held keeps the statistics and the
\* schedule it had just before the merge, so those of a grading made while
\* the files were being read.
C34_GradingSurvivesMerge ==
    [][last'.op = "fileLoaded" /\ last'.batch # <<>> /\ ~last'.replace =>
          \A i \in 1..Len(deck.cards), j \in 1..Len(deck'.cards) :
             cardObj[deck.cards[i]].id = cardObj'[deck'.cards[j]].id
                => progObj'[cardObj'[deck'.cards[j]].prog] = ProgOf(deck.cards[i])]_vars

\* Card "a", stored with seen 5, was graded while a workbook with a row for
\* "a" was being read: after the merge it has the content of the workbook
\* and seen 6.
C34_Witness ==
    /\ last.op = "fileLoaded" /\ last.batch # <<>> /\ ~last.replace
    /\ \E i \in 1..Len(deck.cards) :
          /\ cardObj[deck.cards[i]].id = "a"
          /\ cardObj[deck.cards[i]].front = 2
          /\ ProgOf(deck.cards[i]).stats.seen = 6
          /\ ProgOf(deck.cards[i]).stats.lastSeen = <<now>>
    /\ storage.deck = Snapshot(deck, cardObj, progObj)

---------------------------------------------------------------------------
(* Claims on the durable record and the two schedulers, under GradeSpec *)

\* The last handler changed the deck: a grading, a merge or replace of
\* collected cards, a reset of the statistics or a clear.
DeckChanged ==
    \/ last.op \in Gradings /\ last.card # 0
    \/ last.op = "import" /\ last.batch # <<>>
    \/ last.op \in {"reset", "clear"}

\* C35: after every handler that changes the deck and whose write succeeds,
\* the durable record is the in-memory deck as JSON.stringify writes it: all
\* its cards with their stats and sr, its topic index, its time stamps.
C35_RecordIsWholeDeck ==
    DeckChanged /\ ~last.threw => storage.deck = Snapshot(deck, cardObj, progObj)

\* Card "a" was missed in a session: the record holds it with seen 6 and was
\* written at the time of the click.
C35_Witness ==
    /\ last.op = "miss" /\ ~last.threw
    /\ storage.deck.updatedAt = now
    /\ \E i \in 1..Len(storage.deck.cards) :
          /\ storage.deck.cards[i].id = "a"
          /\ storage.deck.cards[i].stats.seen = 6
          /\ storage.deck.cards[i].sr.intervalDays = 1

\* C36: App.markResult(id, r) on a deck that holds a card with that id leaves
\* the deck (every card's stats and sr) and the durable record exactly as
\* record() called on that card object with outcome r at the same time would,
\* whatever the card's streak was; for an id the deck does not hold it changes
\* neither the deck nor the durable record.
C36_MarkResultIsRecord ==
    [][last'.op = "markResult" /\ ~last'.threw =>
          IF last'.card = 0
          THEN /\ Snapshot(deck', cardObj', progObj') = Snapshot(deck, cardObj, progObj)
               /\ storage' = storage
          ELSE \A a \in SeqToSet(deck.cards) :
                  cardObj[a].id = cardObj'[last'.card].id =>
                     LET r == record(Here, a, last'.isCorrect, now', TRUE)
                     IN /\ Snapshot(deck', cardObj', progObj')
                              = Snapshot(r.deck, r.cardObj, r.progObj)
                        /\ storage' = r.storage]_vars

C36_Witness ==
    /\ last.op = "markResult" /\ last.isCorrect /\ ~last.threw /\ last.card # 0
    /\ cardObj[last.card].id = "a"
    /\ ProgOf(last.card).stats.streak = 3
    /\ ProgOf(last.card).sr.intervalDays = 14
    /\ ProgOf(last.card).sr.nextDue = now + 14 * DayMs
    /\ storage.deck = Snapshot(deck, cardObj, progObj)

\* C37: a card's streak counts its right answers in a row: a right grading adds
\* one to it, a wrong grading and a reset set it to 0, a card made by a
\* replacing import starts at 0, and nothing else (a merging import, a grading
\* of a card with other statistics, a session step) changes it; so in every state every card
\* of the deck has streak <= correct.
C37_StreakCountsRun ==
    /\ [](\A a \in SeqToSet(deck.cards) : ProgOf(a).stats.streak <= ProgOf(a).stats.correct)
    /\ [][~last'.threw =>
             \A a \in SeqToSet(deck.cards), b \in SeqToSet(deck'.cards) :
                cardObj[a].id = cardObj'[b].id =>
                   progObj'[cardObj'[b].prog].stats.streak =
                      IF last'.op \in Gradings /\ last'.card # 0
                         /\ cardObj'[last'.card].prog = cardObj'[b].prog
                      THEN IF last'.isCorrect THEN ProgOf(a).stats.streak + 1 ELSE 0
                      ELSE IF last'.op = "reset" THEN 0
                      ELSE IF last'.op = "import" /\ last'.replace /\ last'.batch # <<>> THEN 0
                      ELSE ProgOf(a).stats.streak]_vars

C37_Witness ==
    /\ last.op = "import" /\ ~last.replace /\ last.batch # <<>> /\ ~last.threw
    /\ \E a \in SeqToSet(deck.cards) :
          /\ cardObj[a].id = "a" /\ cardObj[a].front = 2
          /\ ProgOf(a).stats.streak = 4
          /\ ProgOf(a).stats.correct = 6
          /\ ProgOf(a).stats.seen = 7

---------------------------------------------------------------------------
(* The due filter against the scheduler: gradings, the clock moving by half
   days, then one call of App.filterDeck({ dueOnly: true }) *)

MaxHalfDays == 10

\* Half a day passes
HalfDay ==
    /\ now < StartMs + MaxHalfDays * (DayMs \div 2)
    /\ now' = now + DayMs \div 2
    /\ Commit(Here, session, view, Ran("tick", FALSE))
    /\ UNCHANGED <<settings, timers>>

DueNext ==
    \/ probe.stage = "none" /\ HalfDay
    \/ probe.stage = "none" /\ \E id \in CardIds, w \in BOOLEAN : MarkResult(id, w, TRUE)
    \/ \E o \in {f \in FilterOptions :
                     /\ f.dueOnly /\ ~f.wrongOnly /\ ~f.shuffle
                     /\ f.ids = <<>> /\ f.limit = <<>>
                     /\ f.type = "" /\ f.topic = "" /\ f.search = ""} : FilterDeck(o)

DueSpec == Init /\ [][DueNext]_vars

---------------------------------------------------------------------------
(* Advancing through a session: starts, Repeat later, Missed and the Next
   button, where a student who has not finished goes on pressing Next *)

AdvanceNext ==
    \/ \E o \in GradeOptions : StartSession(o, TRUE)
    \/ Repeat_later
    \/ Miss(TRUE)
    \/ Next_card

AdvanceSpec == Init /\ [][AdvanceNext]_vars /\ WF_vars(Next_card)

\* C39: in a session where, from some point on, no card is queued again
\* (neither by Repeat later nor by a missed flashcard), going on advancing
\* brings every active state (a card shown, idx < pool.length) to the complete
\* state (idx == pool.length, the summary shown).
C39_AdvancingCompletes ==
    <>[][last'.op \notin {"repeat", "miss"}]_vars
       => ((view.kind = "card" /\ session.idx < Len(session.pool))
              ~> (session.idx = Len(session.pool) /\ view.kind = "summary"))

\* Next ends a session whose pool two requeues made three cards long.
C39_Witness ==
    /\ last.op = "next"
    /\ Len(session.pool) = MaxPool
    /\ session.idx = Len(session.pool)
    /\ session.wrongs # <<>>
    /\ view.kind = "summary"

---------------------------------------------------------------------------
(* A replacing import that collects nothing, under ImportSpec *)

\* C40: while a batch chosen with "replace" ticked has collected no card, no
\* step of it (the choice of the files, the completion of a file that is
\* empty, unsupported or does not parse, the last one included) changes the
\* deck (cards, stats, sr, topicIndex, time stamps) or the durable record;
\* and a step of a replacing batch that does change the deck is the merge of a
\* batch that collected at least one card.
C40_EmptyReplaceLeavesDeck ==
    [][last'.op \in {"chooseFiles", "fileLoaded"} /\ importing'.replace =>
          /\ importing'.collected = <<>> =>
                /\ Snapshot(deck', cardObj', progObj') = Snapshot(deck, cardObj, progObj)
                /\ storage' = storage
          /\ Snapshot(deck', cardObj', progObj') # Snapshot(deck, cardObj, progObj) =>
                /\ importing'.pending = 0
                /\ importing'.collected # <<>>
                /\ last'.batch = importing'.collected]_vars

\* A replacing batch of a file that does not parse and an unsupported file is
\* over: the deck still is the stored one.
C40_Witness ==
    /\ last.op = "fileLoaded" /\ last.replace /\ ~last.threw /\ last.batch = <<>>
    /\ importing.replace /\ importing.pending = 0 /\ importing.collected = <<>>
    /\ Len(importing.files) = 2
    /\ \E i \in 1..2 : importing.files[i].throws
    /\ \E i \in 1..2 : importing.files[i].ext = "txt"
    /\ importing.batches = 1
    /\ Snapshot(deck, cardObj, progObj) = StoredDeck
    /\ storage.deck = StoredDeck

====
